---- MODULE Spec2Model ----
(***************************************************************************)
(* Verification model of solana-idl-codegen.                               *)
(*                                                                         *)
(* The generator (src/src/codegen.rs) turns a schema (src/src/idl.rs) into *)
(* Rust source text.  The model keeps, for every emitted item, the part of *)
(* the text that decides its behaviour (constant values, match arms in     *)
(* their emitted order, field lists) and gives the emitted routines as     *)
(* operators over byte sequences.  The override resolver                   *)
(* (src/src/override.rs) is modelled on the same schema records.           *)
(***************************************************************************)
EXTENDS Integers, Sequences, FiniteSets, TLC

VARIABLES idl, gen, wire, res, ovr, vres, app, dsc, got, doc, pc, disk, scan, fmt

vars == <<idl, gen, wire, res, ovr, vres, app, dsc, got, doc, pc, disk, scan, fmt>>

----------------------------------------------------------------------------
(* Bounds of the model.                                                    *)

MaxIx == 2
MaxEvents == 2
MaxOvEntries == 2
MaxDiscLen == 9

----------------------------------------------------------------------------
(* Option<T> and Result<T, E>.                                             *)

None == [some |-> FALSE]
Some(x) == [some |-> TRUE, v |-> x]
IsSome(o) == o.some
IsNone(o) == ~o.some

Ok(x) == [ok |-> TRUE, val |-> x]
Err(e) == [ok |-> FALSE, err |-> e]

(* A panic of the emitted code (slice index out of range).                 *)
Panic == [ok |-> FALSE, panic |-> TRUE]
IsPanic(r) == "panic" \in DOMAIN r

(* std::io::Error::new(kind, msg).                                         *)
IoError(kind, msg) == [kind |-> kind, msg |-> msg]

(* The error built with format!("discm does not match. Expected: {:?}.     *)
(* Received: {:?}", CONST, maybe_discm): the text carries both tags.       *)
DiscmMismatchError(expected, received) ==
    [kind |-> "InvalidData", msg |-> "discm does not match",
     expected |-> expected, received |-> received]

----------------------------------------------------------------------------
(* Byte sequences.                                                         *)

(* n.to_le_bytes() for a w-byte unsigned integer: least significant byte  *)
(* first.                                                                  *)
RECURSIVE to_le_bytes(_, _)
to_le_bytes(n, w) ==
    IF w = 0 THEN <<>> ELSE <<n % 256>> \o to_le_bytes(n \div 256, w - 1)

RECURSIVE from_le_bytes(_)
from_le_bytes(bs) ==
    IF bs = <<>> THEN 0 ELSE Head(bs) + 256 * from_le_bytes(Tail(bs))

(* &data[..n] and &data[n..]: both panic when n exceeds the length, which  *)
(* IndexChecked makes the result of the routine that slices.               *)
SliceTo(data, n) == SubSeq(data, 1, n)

SliceFrom(data, n) == SubSeq(data, n + 1, Len(data))

IndexChecked(data, n, r) == IF n > Len(data) THEN Panic ELSE r

Zero8 == [k \in 1..8 |-> 0]

----------------------------------------------------------------------------
(* Borsh encoding of the scalar types the model uses, as map_idl_type maps *)
(* them: u8, u16, u64 (little-endian, fixed width), bool (one byte, 0 or   *)
(* 1), bytes (Vec<u8>: u32 length prefix, then the bytes).                 *)

ScalarWidth(ty) ==
    CASE ty = "u8" -> 1
      [] ty = "u16" -> 2
      [] ty = "u64" -> 8
      [] ty = "bool" -> 1

BorshUnexpectedLength == IoError("InvalidData", "Unexpected length of input")
(* The text of the error names the byte that is neither 0 nor 1.          *)
BorshInvalidBool(b) ==
    IoError("InvalidData", "Invalid bool representation: " \o ToString(b))
BorshNotAllBytesRead == IoError("InvalidData", "Not all bytes read")

borsh_serialize_value(ty, v) ==
    CASE ty = "bool" -> IF v THEN <<1>> ELSE <<0>>
      [] ty = "bytes" -> to_le_bytes(Len(v), 4) \o v
      [] OTHER -> to_le_bytes(v, ScalarWidth(ty))

(* Reads one value from the front of buf: the value and the rest, or the   *)
(* error borsh returns.                                                    *)
borsh_deserialize_value(ty, buf) ==
    IF ty = "bytes"
    THEN IF Len(buf) < 4 THEN Err(BorshUnexpectedLength)
         ELSE LET n == from_le_bytes(SubSeq(buf, 1, 4)) IN
              IF Len(buf) - 4 < n THEN Err(BorshUnexpectedLength)
              ELSE [ok |-> TRUE, val |-> SubSeq(buf, 5, 4 + n),
                    rest |-> SubSeq(buf, 5 + n, Len(buf))]
    ELSE LET w == ScalarWidth(ty) IN
         IF Len(buf) < w THEN Err(BorshUnexpectedLength)
         ELSE LET raw == SubSeq(buf, 1, w)
                  rest == SubSeq(buf, w + 1, Len(buf)) IN
              IF ty = "bool"
              THEN IF raw[1] = 0 THEN [ok |-> TRUE, val |-> FALSE, rest |-> rest]
                   ELSE IF raw[1] = 1 THEN [ok |-> TRUE, val |-> TRUE, rest |-> rest]
                   ELSE Err(BorshInvalidBool(raw[1]))
              ELSE [ok |-> TRUE, val |-> from_le_bytes(raw), rest |-> rest]

(* #[derive(BorshSerialize)] on a struct: the fields in declared order.     *)
RECURSIVE borsh_serialize_struct(_, _)
borsh_serialize_struct(fields, vals) ==
    IF fields = <<>> THEN <<>>
    ELSE borsh_serialize_value(Head(fields).ty, Head(vals))
         \o borsh_serialize_struct(Tail(fields), Tail(vals))

(* #[derive(BorshDeserialize)] on a struct: T::deserialize(&mut buf).       *)
RECURSIVE borsh_deserialize_struct(_, _)
borsh_deserialize_struct(fields, buf) ==
    IF fields = <<>> THEN [ok |-> TRUE, val |-> <<>>, rest |-> buf]
    ELSE LET r == borsh_deserialize_value(Head(fields).ty, buf) IN
         IF ~r.ok THEN r
         ELSE LET t == borsh_deserialize_struct(Tail(fields), r.rest) IN
              IF ~t.ok THEN t
              ELSE [ok |-> TRUE, val |-> <<r.val>> \o t.val, rest |-> t.rest]

(* BorshDeserialize::try_from_slice: the whole slice must be consumed.     *)
borsh_try_from_slice(fields, data) ==
    LET r == borsh_deserialize_struct(fields, data) IN
    IF ~r.ok THEN r
    ELSE IF r.rest # <<>> THEN Err(BorshNotAllBytesRead)
    ELSE Ok(r.val)

----------------------------------------------------------------------------
(* Identifier casing (heck): the names the model uses and their            *)
(* to_pascal_case() and to_snake_case().to_uppercase() forms.              *)

IxNames == {"Initialize", "swap", "closePool"}

to_pascal_case(name) ==
    CASE name = "Initialize" -> "Initialize"
      [] name = "swap" -> "Swap"
      [] name = "closePool" -> "ClosePool"
      [] OTHER -> name

to_snake_upper(name) ==
    CASE name = "Initialize" -> "INITIALIZE"
      [] name = "swap" -> "SWAP"
      [] name = "closePool" -> "CLOSE_POOL"
      [] name = "TradeEvent" -> "TRADE_EVENT"
      [] name = "CreateEvent" -> "CREATE_EVENT"
      [] name = "PoolState" -> "POOL_STATE"
      [] OTHER -> name

Range(s) == {s[i] : i \in DOMAIN s}

----------------------------------------------------------------------------
(* generate_instructions: the emitted instructions module.                 *)

(* Variant: the position written most significant byte first              *)
(* (to_be_bytes).                                                          *)
discriminator_bytes_big_endian(idx, ix) ==
    IF IsSome(ix.discriminator) THEN ix.discriminator.v
    ELSE [k \in 1..8 |-> to_le_bytes(idx, 8)[9 - k]]

(* Variant: the position counted from one.                                 *)
discriminator_bytes_one_based(idx, ix) ==
    IF IsSome(ix.discriminator) THEN ix.discriminator.v
    ELSE to_le_bytes(idx + 1, 8)

(* The discriminator of the instruction at zero-based position idx: the    *)
(* explicit one, or (idx as u64).to_le_bytes().                            *)
discriminator_bytes(idx, ix) ==
    IF IsSome(ix.discriminator) THEN ix.discriminator.v
    ELSE to_le_bytes(idx, 8)

generate_instructions(instructions) ==
    LET n == Len(instructions) IN
    [consts |-> [i \in 1..n |->
        [name |-> to_snake_upper(instructions[i].name),
         value |-> discriminator_bytes(i - 1, instructions[i])]],
     ix_data |-> [i \in 1..n |->
        [name |-> to_pascal_case(instructions[i].name),
         discm |-> to_snake_upper(instructions[i].name),
         args |-> instructions[i].args]],
     variants |-> [i \in 1..n |->
        [name |-> to_pascal_case(instructions[i].name),
         args |-> instructions[i].args]],
     serialize_arms |-> [i \in 1..n |->
        [variant |-> to_pascal_case(instructions[i].name),
         discm |-> to_snake_upper(instructions[i].name),
         args |-> instructions[i].args]],
     deserialize_arms |-> [i \in 1..n |->
        [pattern |-> discriminator_bytes(i - 1, instructions[i]),
         variant |-> to_pascal_case(instructions[i].name),
         args |-> instructions[i].args]]]

(* The value of the emitted constant {NAME}_IX_DISCM.                      *)
IxDiscm(g, cname) == (CHOOSE c \in Range(g.consts) : c.name = cname).value

(* The first arm of a match, in emitted order, among the arms (given by    *)
(* their positions) that the scrutinee matches.                            *)
FirstArm(arms, hits) ==
    IF hits = {} THEN None
    ELSE Some(arms[CHOOSE i \in hits : \A j \in hits : i <= j])

(* Emitted Instruction::serialize.                                         *)
Instruction_serialize(g, v) ==
    LET hits == {i \in DOMAIN g.serialize_arms : g.serialize_arms[i].variant = v.variant}
        arm == FirstArm(g.serialize_arms, hits).v IN
    IF arm.args = <<>> THEN IxDiscm(g, arm.discm)
    ELSE IxDiscm(g, arm.discm) \o borsh_serialize_struct(arm.args, v.args)

(* Variant: the arguments are read from the start of data, tag included.   *)
Instruction_try_from_slice_args_from_start(g, data) ==
    IF Len(data) < 8
    THEN Err(IoError("InvalidData", "Data too short for instruction discriminator"))
    ELSE IndexChecked(data, 8,
        LET buf == data
            hits == {i \in DOMAIN g.deserialize_arms :
                        g.deserialize_arms[i].pattern = SliceTo(data, 8)}
            arm == FirstArm(g.deserialize_arms, hits) IN
        IF IsNone(arm)
        THEN Err(IoError("InvalidData", "Unknown instruction discriminator"))
        ELSE IF arm.v.args = <<>> THEN Ok([variant |-> arm.v.variant, args |-> <<>>])
        ELSE LET r == borsh_deserialize_struct(arm.v.args, buf) IN
             IF ~r.ok THEN Err(r.err)
             ELSE Ok([variant |-> arm.v.variant, args |-> r.val]))

(* Emitted Instruction::try_from_slice.                                    *)
Instruction_try_from_slice(g, data) ==
    IF Len(data) < 8
    THEN Err(IoError("InvalidData", "Data too short for instruction discriminator"))
    ELSE IndexChecked(data, 8,
        LET buf == SliceFrom(data, 8)
            hits == {i \in DOMAIN g.deserialize_arms :
                        g.deserialize_arms[i].pattern = SliceTo(data, 8)}
            arm == FirstArm(g.deserialize_arms, hits) IN
        IF IsNone(arm)
        THEN Err(IoError("InvalidData", "Unknown instruction discriminator"))
        ELSE IF arm.v.args = <<>> THEN Ok([variant |-> arm.v.variant, args |-> <<>>])
        ELSE LET r == borsh_deserialize_struct(arm.v.args, buf) IN
             IF ~r.ok THEN Err(r.err)
             ELSE Ok([variant |-> arm.v.variant, args |-> r.val]))

(* reader.read_exact(&mut [0u8; 8]) on a &[u8] reader.                     *)
ReadExactEof == IoError("UnexpectedEof", "failed to fill whole buffer")

(* Emitted {Name}IxData::serialize.                                        *)
IxData_serialize(g, d, args) ==
    IF d.args = <<>> THEN IxDiscm(g, d.discm)
    ELSE IxDiscm(g, d.discm) \o borsh_serialize_struct(d.args, args)

(* Emitted {Name}IxData::deserialize.                                      *)
IxData_deserialize(g, d, buf) ==
    IF Len(buf) < 8 THEN Err(ReadExactEof)
    ELSE LET maybe_discm == SubSeq(buf, 1, 8)
             reader == SubSeq(buf, 9, Len(buf)) IN
         IF maybe_discm # IxDiscm(g, d.discm)
         THEN Err(DiscmMismatchError(IxDiscm(g, d.discm), maybe_discm))
         ELSE IF d.args = <<>> THEN Ok(<<>>)
         ELSE LET r == borsh_deserialize_struct(d.args, reader) IN
              IF ~r.ok THEN Err(r.err) ELSE Ok(r.val)

----------------------------------------------------------------------------
(* generate: accounts.  An account with an inline type body gets its       *)
(* struct and, when it has a discriminator, the impl block                 *)
(* (generate_account); an account without a body stores its discriminator  *)
(* under its name, and the type of that name gets the impl block.          *)

use_bytemuck(ty) ==
    IsSome(ty.serialization)
    /\ ty.serialization.v \in {"bytemuckunsafe", "bytemuck"}

(* ty.repr.as_ref().and_then(|r| r.packed).unwrap_or(false)                *)
is_packed(ty) ==
    IsSome(ty.repr) /\ IsSome(ty.repr.v.packed) /\ ty.repr.v.packed.v

OptSeq(o) == IF IsSome(o) THEN o.v ELSE <<>>

(* account_discriminators: HashMap insert in declaration order, so the     *)
(* last account of a name decides.                                         *)
account_discriminators(accounts) ==
    LET refs == {i \in DOMAIN accounts :
                    IsNone(accounts[i].ty) /\ IsSome(accounts[i].discriminator)}
        names == {accounts[i].name : i \in refs} IN
    [n \in names |->
        LET last == CHOOSE i \in refs :
                        /\ accounts[i].name = n
                        /\ \A j \in refs : accounts[j].name = n => j <= i
        IN accounts[last].discriminator.v]

generate_account_impls(schema) ==
    LET accounts == OptSeq(schema.accounts)
        types == OptSeq(schema.types)
        Inline(a) == IsSome(a.ty) /\ IsSome(a.discriminator)
        inline == SelectSeq(accounts, Inline)
        discs == account_discriminators(accounts)
        IsAccountType(t) == t.name \in DOMAIN discs
        account_types == SelectSeq(types, IsAccountType)
    IN [i \in DOMAIN inline |->
            [name |-> inline[i].name, DISCRIMINATOR |-> inline[i].discriminator.v,
             fields |-> inline[i].ty.v.fields, strategy |-> "borsh",
             packed |-> FALSE]]
       \o [i \in DOMAIN account_types |->
            [name |-> account_types[i].name,
             DISCRIMINATOR |-> discs[account_types[i].name],
             fields |-> account_types[i].ty.fields,
             strategy |-> IF use_bytemuck(account_types[i])
                          THEN "bytemuck" ELSE "borsh",
             packed |-> use_bytemuck(account_types[i])
                        /\ is_packed(account_types[i])]]

(* Variant: the payload is written without the tag.                        *)
serialize_with_discriminator_no_tag(a, v) == borsh_serialize_struct(a.fields, v)

(* Emitted serialize_with_discriminator (default strategy).                *)
serialize_with_discriminator(a, v) ==
    a.DISCRIMINATOR \o borsh_serialize_struct(a.fields, v)

(* Variant: no length check before the slices.                             *)
try_from_slice_with_discriminator_unchecked(a, data) ==
    IndexChecked(data, 8,
        IF SliceTo(data, 8) # a.DISCRIMINATOR
        THEN Err(IoError("InvalidData", "Invalid discriminator"))
        ELSE borsh_try_from_slice(a.fields, SliceFrom(data, 8)))

(* Emitted try_from_slice_with_discriminator (default strategy).           *)
try_from_slice_with_discriminator(a, data) ==
    IF Len(data) < 8
    THEN Err(IoError("InvalidData", "Data too short for discriminator"))
    ELSE IndexChecked(data, 8,
        IF SliceTo(data, 8) # a.DISCRIMINATOR
        THEN Err(IoError("InvalidData", "Invalid discriminator"))
        ELSE borsh_try_from_slice(a.fields, SliceFrom(data, 8)))

----------------------------------------------------------------------------
(* The fixed layout of a bytemuck account type: #[repr(C)] or              *)
(* #[repr(C, packed)] on a struct of fixed-width fields.  The layouts of   *)
(* the model have no padding (every field starts at a multiple of its      *)
(* width), so the size is the sum of the widths.                           *)

RECURSIVE size_of(_)
size_of(fields) ==
    IF fields = <<>> THEN 0
    ELSE ScalarWidth(Head(fields).ty) + size_of(Tail(fields))

RECURSIVE max_width(_)
max_width(fields) ==
    IF fields = <<>> THEN 1
    ELSE LET w == ScalarWidth(Head(fields).ty)
             m == max_width(Tail(fields)) IN
         IF w > m THEN w ELSE m

align_of(a) == IF a.packed THEN 1 ELSE max_width(a.fields)

(* bytemuck::bytes_of(self): the fields' little-endian bytes in order.     *)
RECURSIVE bytes_of(_, _)
bytes_of(fields, vals) ==
    IF fields = <<>> THEN <<>>
    ELSE to_le_bytes(Head(vals), ScalarWidth(Head(fields).ty))
            \o bytes_of(Tail(fields), Tail(vals))

(* The value a reference cast onto bytes reads: each field from its bytes. *)
RECURSIVE read_fields(_, _)
read_fields(fields, bytes) ==
    IF fields = <<>> THEN <<>>
    ELSE LET w == ScalarWidth(Head(fields).ty) IN
         <<from_le_bytes(SubSeq(bytes, 1, w))>>
            \o read_fields(Tail(fields), SubSeq(bytes, w + 1, Len(bytes)))

BytemuckError(e) ==
    IoError("InvalidData",
            IF e = "SizeMismatch" THEN "Bytemuck conversion error: SizeMismatch"
            ELSE "Bytemuck conversion error: TargetAlignmentGreaterAndInputNotAligned")

(* Variant: the window may be longer than the layout; its first size_of    *)
(* bytes are read.                                                         *)
bytemuck_try_from_bytes_prefix(a, s, aligned) ==
    IF Len(s) < size_of(a.fields) THEN Err("SizeMismatch")
    ELSE IF ~aligned /\ align_of(a) > 1
    THEN Err("TargetAlignmentGreaterAndInputNotAligned")
    ELSE Ok(read_fields(a.fields, SubSeq(s, 1, size_of(a.fields))))

(* bytemuck::try_from_bytes::<Self>(s).copied(): the slice must have       *)
(* exactly the size of Self and start at a multiple of its alignment;      *)
(* aligned says whether it does.                                           *)
bytemuck_try_from_bytes(a, s, aligned) ==
    IF Len(s) # size_of(a.fields) THEN Err("SizeMismatch")
    ELSE IF ~aligned /\ align_of(a) > 1
    THEN Err("TargetAlignmentGreaterAndInputNotAligned")
    ELSE Ok(read_fields(a.fields, s))

(* Emitted serialize_with_discriminator (bytemuck strategy).               *)
bytemuck_serialize_with_discriminator(a, v) ==
    a.DISCRIMINATOR \o bytes_of(a.fields, v)

(* Emitted try_from_slice_with_discriminator (bytemuck strategy).          *)
bytemuck_try_from_slice_with_discriminator(a, data, aligned) ==
    IF Len(data) < 8
    THEN Err(IoError("InvalidData", "Data too short for discriminator"))
    ELSE IndexChecked(data, 8,
        IF SliceTo(data, 8) # a.DISCRIMINATOR
        THEN Err(IoError("InvalidData", "Invalid discriminator"))
        ELSE LET r == bytemuck_try_from_bytes(a, SliceFrom(data, 8), aligned) IN
             IF r.ok THEN Ok(r.val) ELSE Err(BytemuckError(r.err)))

----------------------------------------------------------------------------
(* generate_event and generate_event_parsing_helpers.                      *)

(* The fields generate_event finds for an event: the inline list, or the   *)
(* named fields of the struct type with the event's name.                  *)
event_field_tokens(event, types) ==
    IF IsSome(event.fields) THEN event.fields.v
    ELSE IF IsSome(types)
    THEN LET hits == {i \in DOMAIN types.v : types.v[i].name = event.name} IN
         IF hits = {} THEN <<>>
         ELSE LET t == types.v[CHOOSE i \in hits : \A j \in hits : i <= j] IN
              IF t.ty.kind = "struct" THEN t.ty.fields ELSE <<>>
    ELSE <<>>

(* What generate_event emits for one event: nothing when there are no      *)
(* fields; the data struct; the constant and the wrapper when the event    *)
(* has a discriminator.                                                    *)
generate_event(event, types) ==
    LET fields == event_field_tokens(event, types) IN
    IF fields = <<>> THEN [emitted |-> FALSE]
    ELSE [emitted |-> TRUE, name |-> event.name, fields |-> fields,
          wrapper |-> IsSome(event.discriminator),
          discm |-> to_snake_upper(event.name),
          value |-> IF IsSome(event.discriminator)
                    THEN event.discriminator.v ELSE <<>>]

(* The ParsedEvent variants and parse_event arms, in emitted order.        *)
generate_event_parsing_helpers(events) ==
    LET HasDisc(e) == IsSome(e.discriminator)
        tagged == SelectSeq(events, HasDisc)
    IN [i \in DOMAIN tagged |->
            [discm |-> to_snake_upper(tagged[i].name), wrapper |-> tagged[i].name,
             variant |-> to_pascal_case(tagged[i].name)]]

(* Emitted BorshSerialize for {Name}Event.                                 *)
EventWrapper_serialize(w, v) == w.value \o borsh_serialize_struct(w.fields, v)

(* Emitted {Name}Event::deserialize(buf: &mut &[u8]).                      *)
EventWrapper_deserialize(w, buf) ==
    IF Len(buf) < 8 THEN Err(BorshUnexpectedLength)
    ELSE LET maybe_discm == SubSeq(buf, 1, 8) IN
         IF maybe_discm # w.value
         THEN Err(DiscmMismatchError(w.value, maybe_discm))
         ELSE borsh_deserialize_struct(w.fields, SubSeq(buf, 9, Len(buf)))

(* The emitted wrapper and constant an arm refers to.                      *)
WrapperOf(g, arm) ==
    CHOOSE w \in Range(g.events) : w.emitted /\ w.wrapper /\ w.name = arm.wrapper

(* Emitted parse_event.                                                    *)
parse_event(g, data) ==
    IF Len(data) < 8 THEN Err([kind |-> "DataTooShort"])
    ELSE IndexChecked(data, 8,
        LET discm == SliceTo(data, 8)
            hits == {i \in DOMAIN g.parse_arms :
                        WrapperOf(g, g.parse_arms[i]).value = discm}
            arm == FirstArm(g.parse_arms, hits) IN
        IF IsNone(arm) THEN Err([kind |-> "UnknownDiscriminator", discm |-> discm])
        ELSE LET r == EventWrapper_deserialize(WrapperOf(g, arm.v), data) IN
             IF r.ok THEN Ok([variant |-> arm.v.variant, event |-> r.val])
             ELSE Err([kind |-> "DeserializationError",
                       variant |-> arm.v.variant, source |-> r.err]))

(* Variant: the size returned is the length of what is left of the input.  *)
parse_event_with_size_remaining(g, data) ==
    IF Len(data) < 8 THEN Err([kind |-> "DataTooShort"])
    ELSE LET discm == SliceTo(data, 8)
             hits == {i \in DOMAIN g.parse_arms :
                         WrapperOf(g, g.parse_arms[i]).value = discm}
             arm == FirstArm(g.parse_arms, hits) IN
         IF IsNone(arm) THEN Err([kind |-> "UnknownDiscriminator", discm |-> discm])
         ELSE LET r == EventWrapper_deserialize(WrapperOf(g, arm.v), data) IN
              IF r.ok
              THEN Ok([event |-> [variant |-> arm.v.variant, event |-> r.val],
                       bytes_consumed |-> Len(r.rest)])
              ELSE Err([kind |-> "DeserializationError",
                        variant |-> arm.v.variant, source |-> r.err])

(* Emitted parse_event_with_size: the event and initial_len minus the      *)
(* length of what the wrapper's deserialize left of data_slice.            *)
parse_event_with_size(g, data) ==
    IF Len(data) < 8 THEN Err([kind |-> "DataTooShort"])
    ELSE LET discm == SliceTo(data, 8)
             hits == {i \in DOMAIN g.parse_arms :
                         WrapperOf(g, g.parse_arms[i]).value = discm}
             arm == FirstArm(g.parse_arms, hits) IN
         IF IsNone(arm) THEN Err([kind |-> "UnknownDiscriminator", discm |-> discm])
         ELSE LET r == EventWrapper_deserialize(WrapperOf(g, arm.v), data) IN
              IF r.ok
              THEN Ok([event |-> [variant |-> arm.v.variant, event |-> r.val],
                       bytes_consumed |-> Len(data) - Len(r.rest)])
              ELSE Err([kind |-> "DeserializationError",
                        variant |-> arm.v.variant, source |-> r.err])

(* Variant: after an event that fails to decode the loop skips its 8-byte  *)
(* tag and goes on.                                                        *)
parse_events_iteration_skips_errors(g, data, offset, events) ==
    IF ~(offset < Len(data)) THEN [offset |-> offset, events |-> events, done |-> TRUE]
    ELSE IF Len(data) - offset < 8
    THEN [offset |-> offset, events |-> events, done |-> TRUE]
    ELSE LET r == parse_event_with_size(g, SliceFrom(data, offset)) IN
         IF r.ok
         THEN [offset |-> offset + r.val.bytes_consumed,
               events |-> Append(events, Ok(r.val.event)), done |-> FALSE]
         ELSE [offset |-> offset + 8,
               events |-> Append(events, Err(r.err)), done |-> FALSE]

(* One evaluation of the loop of the emitted parse_events_from_data, from  *)
(* its condition to the end of its body: the loop ends when the condition  *)
(* is false, on the break for fewer than 8 bytes left, and on the break    *)
(* after an error was pushed.                                              *)
parse_events_iteration(g, data, offset, events) ==
    IF ~(offset < Len(data)) THEN [offset |-> offset, events |-> events, done |-> TRUE]
    ELSE IF Len(data) - offset < 8
    THEN [offset |-> offset, events |-> events, done |-> TRUE]
    ELSE LET r == parse_event_with_size(g, SliceFrom(data, offset)) IN
         IF r.ok
         THEN [offset |-> offset + r.val.bytes_consumed,
               events |-> Append(events, Ok(r.val.event)), done |-> FALSE]
         ELSE [offset |-> offset,
               events |-> Append(events, Err(r.err)), done |-> TRUE]

----------------------------------------------------------------------------
(* Idl accessors (src/src/idl.rs).  A schema is                            *)
(*   [address, name, version : Option, metadata : Option of                *)
(*    [name, version, address : Option], instructions, accounts, types,    *)
(*    events].                                                             *)

(* Idl::get_name: metadata.name, else the top-level name, else "unknown".  *)
get_name(schema) ==
    IF IsSome(schema.metadata) /\ IsSome(schema.metadata.v.name)
    THEN schema.metadata.v.name.v
    ELSE IF IsSome(schema.name) THEN schema.name.v
    ELSE "unknown"

(* Idl::get_version: metadata.version, else the top-level version, else    *)
(* "0.0.0".                                                                *)
get_version(schema) ==
    IF IsSome(schema.metadata) /\ IsSome(schema.metadata.v.version)
    THEN schema.metadata.v.version.v
    ELSE IF IsSome(schema.version) THEN schema.version.v
    ELSE "0.0.0"

(* Idl::get_address: the top-level address, else metadata.address, else    *)
(* None.                                                                   *)
get_address(schema) ==
    IF IsSome(schema.address) THEN Some(schema.address.v)
    ELSE IF IsSome(schema.metadata) /\ IsSome(schema.metadata.v.address)
    THEN Some(schema.metadata.v.address.v)
    ELSE None

----------------------------------------------------------------------------
(* generate: the emitted crate.  format_module parses each module's text;  *)
(* with no instruction the dispatch match is `match .. { , _ => .. }`,     *)
(* which does not parse, and generate returns the error.                   *)

NoGen == [ran |-> FALSE, ok |-> FALSE]

(* Variant: the address under metadata is preferred to the top-level one.  *)
generate_lib_module_metadata_first(schema) ==
    IF IsSome(schema.metadata) /\ IsSome(schema.metadata.v.address)
    THEN Some(schema.metadata.v.address.v)
    ELSE schema.address

(* generate_lib_module: the address in the emitted declare_id!, or None    *)
(* when only the placeholder comment is emitted.                           *)
generate_lib_module(schema) == get_address(schema)

(* generate_account_validation_helpers: nothing without a program address; *)
(* else one impl block (validate_account_info, try_from_account_info) per  *)
(* account of the accounts list that has a discriminator, in list order.   *)
generate_account_validation_helpers(schema) ==
    IF IsNone(get_address(schema)) THEN <<>>
    ELSE LET HasDisc(a) == IsSome(a.discriminator)
             tagged == SelectSeq(OptSeq(schema.accounts), HasDisc)
         IN [i \in DOMAIN tagged |-> [name |-> tagged[i].name]]

(* types_tokens of generate: the definitions of the types that no account  *)
(* without a body names.                                                   *)
types_tokens(schema) ==
    LET discs == account_discriminators(OptSeq(schema.accounts))
        NotAccount(t) == t.name \notin DOMAIN discs
        plain == SelectSeq(OptSeq(schema.types), NotAccount)
    IN [i \in DOMAIN plain |-> [name |-> plain[i].name]]

(* accounts_tokens of generate: the definitions of the accounts with a     *)
(* body (generate_account), then of the types an account without a body    *)
(* names, their impl blocks, and the validation helpers, which are added   *)
(* only when something was emitted before them.                            *)
accounts_tokens(schema) ==
    LET accounts == OptSeq(schema.accounts)
        discs == account_discriminators(accounts)
        HasTy(a) == IsSome(a.ty)
        inline == SelectSeq(accounts, HasTy)
        IsAccountType(t) == t.name \in DOMAIN discs
        account_types == SelectSeq(OptSeq(schema.types), IsAccountType)
        defs == [i \in DOMAIN inline |-> [name |-> inline[i].name]]
                \o [i \in DOMAIN account_types |-> [name |-> account_types[i].name]]
    IN [types |-> defs,
        impls |-> generate_account_impls(schema),
        helpers |-> IF defs = <<>> THEN <<>>
                    ELSE generate_account_validation_helpers(schema)]

(* generate_errors: the ErrorCode enum with one variant per error; it is   *)
(* emitted, with no variant, for an empty list too.                        *)
generate_errors(errors) ==
    [enum |-> "ErrorCode",
     variants |-> [i \in DOMAIN errors |->
                      [name |-> errors[i].name, code |-> errors[i].code]]]

(* The result of syn::parse_str on the instructions module: the dispatch   *)
(* match is `match &data[..8] { arms , _ => .. }`, which with no arm       *)
(* starts with a comma and is no expression.                               *)
instructions_parse(instructions) == instructions # <<>>

(* format_module: the empty text for no tokens; else the text with its     *)
(* imports, or the error when the text does not parse.                     *)
format_module(tokens_empty, parses, items) ==
    IF tokens_empty THEN Ok([empty |-> TRUE])
    ELSE IF ~parses THEN Err("Failed to parse generated code")
    ELSE Ok([empty |-> FALSE, items |-> items])

generate(schema) ==
    LET ix == generate_instructions(schema.instructions)
        events == OptSeq(schema.events)
        event_items == [i \in DOMAIN events |-> generate_event(events[i], schema.types)]
        Emitted(e) == e.emitted
        parse_arms == generate_event_parsing_helpers(events)
        accounts == accounts_tokens(schema)
        types_code == format_module(types_tokens(schema) = <<>>, TRUE,
                                    types_tokens(schema))
        accounts_code == format_module(accounts.types = <<>>, TRUE, accounts)
        instructions_code ==
            format_module(FALSE, instructions_parse(schema.instructions), ix)
        errors_code ==
            format_module(IsNone(schema.errors), TRUE,
                          generate_errors(OptSeq(schema.errors)))
        events_code ==
            format_module(SelectSeq(event_items, Emitted) = <<>> /\ parse_arms = <<>>,
                          TRUE, [events |-> event_items, parse_arms |-> parse_arms])
    IN
    IF ~instructions_code.ok
    THEN [ran |-> TRUE, ok |-> FALSE, err |-> instructions_code.err,
          debug_file |-> [path |-> "/tmp/failed_codegen.rs", module |-> "instructions"]]
    ELSE [ran |-> TRUE, ok |-> TRUE,
          program_id |-> generate_lib_module(schema),
          account_impls |-> generate_account_impls(schema),
          consts |-> ix.consts, ix_data |-> ix.ix_data, variants |-> ix.variants,
          serialize_arms |-> ix.serialize_arms,
          deserialize_arms |-> ix.deserialize_arms,
          events |-> event_items,
          parse_arms |-> parse_arms,
          code |-> [lib |-> [empty |-> FALSE,
                             items |-> generate_lib_module(schema)],
                    types |-> types_code.val,
                    accounts |-> accounts_code.val,
                    instructions |-> instructions_code.val,
                    errors |-> errors_code.val,
                    events |-> events_code.val]]

----------------------------------------------------------------------------
(* The schemas, values and inputs the emitted code is exercised on.        *)

DiscA == <<1, 2, 3, 4, 5, 6, 7, 8>>
DiscB == <<246, 28, 6, 87, 251, 45, 50, 42>>

NoArgs == <<>>
SwapArgs == <<[name |-> "amount", ty |-> "u16"], [name |-> "exact", ty |-> "bool"]>>
PoolFields == <<[name |-> "amount", ty |-> "u64"], [name |-> "memo", ty |-> "bytes"]>>
TradeFields == <<[name |-> "sold", ty |-> "u8"], [name |-> "is_buy", ty |-> "bool"]>>
FixedFields == <<[name |-> "fee", ty |-> "u16"], [name |-> "tick", ty |-> "u16"]>>

ValuesOf(ty) ==
    CASE ty = "u8" -> {0, 255}
      [] ty = "u16" -> {0, 513}
      [] ty = "u64" -> {1, 513}
      [] ty = "bool" -> {FALSE, TRUE}
      [] ty = "bytes" -> {<<>>, <<7>>}

RECURSIVE StructValues(_)
StructValues(fields) ==
    IF fields = <<>> THEN {<<>>}
    ELSE {<<v>> \o t : v \in ValuesOf(Head(fields).ty), t \in StructValues(Tail(fields))}

(* The declared arguments of each instruction name.                        *)
ArgsOf(name) == IF name = "swap" THEN SwapArgs ELSE NoArgs

IxDecls ==
    {[name |-> n, discriminator |-> d, args |-> ArgsOf(n)] :
        n \in IxNames, d \in {None, Some(Zero8), Some(DiscA)}}

(* Lists of up to MaxIx instructions with distinct names.                  *)
IxLists ==
    {l \in UNION {[1..n -> IxDecls] : n \in 0..MaxIx} :
        \A i, j \in DOMAIN l : i # j => l[i].name # l[j].name}

OneIx == <<[name |-> "Initialize", discriminator |-> None, args |-> NoArgs]>>

BaseSchema ==
    [address |-> None, name |-> None, version |-> None, metadata |-> None,
     instructions |-> OneIx, accounts |-> None, types |-> None, errors |-> None,
     events |-> None]

IxSchemas == {[BaseSchema EXCEPT !.instructions = l] : l \in IxLists}

StructBody(fields) == [kind |-> "struct", fields |-> fields]

AccountSchemas ==
    {[BaseSchema EXCEPT
        !.accounts = Some(<<[name |-> "PoolState", discriminator |-> d, ty |-> ty]>>),
        !.types = tys] :
        d \in {None, Some(DiscA), Some(DiscB)},
        ty \in {None, Some(StructBody(PoolFields))},
        tys \in {None,
                 Some(<<[name |-> "PoolState", ty |-> StructBody(PoolFields),
                         serialization |-> None, repr |-> None]>>)}
                \cup
                {Some(<<[name |-> "PoolState", ty |-> StructBody(FixedFields),
                         serialization |-> Some("bytemuck"), repr |-> r]>>) :
                    r \in {None, Some([kind |-> "C", packed |-> None]),
                           Some([kind |-> "C", packed |-> Some(TRUE)])}}}

EventNames == {"TradeEvent", "CreateEvent"}

EventDecls ==
    [name : EventNames, discriminator : {None, Some(DiscA), Some(DiscB)},
     fields : {Some(TradeFields)}]

EventLists ==
    {l \in UNION {[1..n -> EventDecls] : n \in 0..MaxEvents} :
        \A i, j \in DOMAIN l : i # j => l[i].name # l[j].name}

EventSchemas == {[BaseSchema EXCEPT !.events = Some(l)] : l \in EventLists}

CodecSchemas == IxSchemas \cup AccountSchemas \cup EventSchemas

(* Inputs of the decoders: short inputs, and a tag followed by a payload.  *)
ShortInputs ==
    {<<>>, <<1, 2, 3>>, SubSeq(Zero8, 1, 7), SubSeq(DiscA, 1, 7)}

TestTags == {Zero8, to_le_bytes(1, 8), DiscA, DiscB}

TestPayloads ==
    {<<>>, <<1>>, <<1, 2, 1>>, <<1, 2, 5>>, <<1, 2, 1, 0>>,
     <<1, 2, 0, 0, 0, 0, 0, 0, 1, 0, 0, 0, 7, 9>>}

DecodeInputs == ShortInputs \cup {t \o p : t \in TestTags, p \in TestPayloads}

----------------------------------------------------------------------------
(* State machine of the generator and the emitted routines.                *)
(*   idl   the schema                                                      *)
(*   gen   what generate returned (NoGen before it ran)                    *)
(*   wire  the bytes the last encode routine wrote, with the value         *)
(*   res   the last decode: routine, target, input, result                 *)

NoWire == [routine |-> "none"]
NoRes == [routine |-> "none"]
NoOvr == [loaded |-> FALSE]
NoVres == [ran |-> FALSE]
NoApp == [ran |-> FALSE]
NoDsc == [ran |-> FALSE]
NoGot == [ran |-> FALSE]
NoDoc == [given |-> FALSE]
NoPc == "idle"
NoDisk == <<>>
NoScan == [started |-> FALSE]

NoFmt == <<>>

CodecInit ==
    /\ idl \in CodecSchemas
    /\ gen = NoGen
    /\ wire = NoWire
    /\ res = NoRes
    /\ ovr = NoOvr
    /\ vres = NoVres
    /\ app = NoApp
    /\ dsc = NoDsc
    /\ got = NoGot
    /\ doc = NoDoc
    /\ pc = NoPc
    /\ disk = NoDisk
    /\ scan = NoScan
    /\ fmt = NoFmt

(* A file or directory on disk, as the sequence of writes.                  *)
FileWrite(path, content) == [path |-> path, content |-> content]

(* A file that was created and truncated and holds none or only a part    *)
(* of its text.                                                            *)
Truncated == [kind |-> "truncated"]

(* What a write that the file system fails leaves behind: nothing when    *)
(* the directory or the file could not be created; the file, created and   *)
(* truncated but without its whole text, when fs::write failed after       *)
(* creating it.                                                            *)
failed_write(w) ==
    IF w.content = [kind |-> "directory"] THEN {<<>>}
    ELSE {<<>>, <<FileWrite(w.path, Truncated)>>}

(* The writes a call of generate makes: none when it returns Ok; else the  *)
(* fs::write of the text that did not parse, which format_module tries     *)
(* before it returns the error and whose failure it only reports.          *)
debug_writes(g) ==
    IF g.ok THEN {<<>>}
    ELSE LET w == FileWrite(g.debug_file.path,
                            [kind |-> "unparsed", module |-> g.debug_file.module])
         IN {<<w>>} \cup failed_write(w)

(* generate, with the write format_module makes of the text that did not   *)
(* parse.                                                                  *)
Generate ==
    /\ ~gen.ran
    /\ gen' = generate(idl)
    /\ \E ws \in debug_writes(generate(idl)) : disk' = disk \o ws
    /\ UNCHANGED <<idl, wire, res, ovr, vres, app, dsc, got, doc, pc, scan, fmt>>

Encoded(routine, target, value, bytes) ==
    /\ wire' = [routine |-> routine, target |-> target, value |-> value,
                bytes |-> bytes]
    /\ res' = NoRes
    /\ UNCHANGED <<idl, gen, ovr, vres, app, dsc, got, doc, pc, disk, scan, fmt>>

(* A decode of data, which is either the bytes on the wire (src is then    *)
(* what was encoded) or one of the inputs.                                 *)
Decoded(routine, target, data, out) ==
    /\ res' = [routine |-> routine, target |-> target, input |-> data,
               src |-> IF wire.routine # "none" /\ data = wire.bytes
                       THEN wire ELSE NoWire,
               out |-> out]
    /\ wire' = NoWire
    /\ UNCHANGED <<idl, gen, ovr, vres, app, dsc, got, doc, pc, disk, scan, fmt>>

InputsNow == IF wire.routine = "none" THEN DecodeInputs ELSE {wire.bytes}

AccountSerialize ==
    /\ gen.ok
    /\ \E i \in DOMAIN gen.account_impls :
        LET a == gen.account_impls[i] IN
        /\ a.strategy = "borsh"
        /\ \E v \in StructValues(a.fields) :
              Encoded("account", i, v, serialize_with_discriminator(a, v))

AccountDeserialize ==
    /\ gen.ok
    /\ \E i \in DOMAIN gen.account_impls, data \in InputsNow :
        LET a == gen.account_impls[i] IN
        /\ a.strategy = "borsh"
        /\ Decoded("account", i, data, try_from_slice_with_discriminator(a, data))

(* A decode whose outcome also depends on where the input lies in memory:  *)
(* aligned says whether &data[8..] starts at a multiple of the layout's    *)
(* alignment.                                                              *)
DecodedAt(routine, target, data, aligned, out) ==
    /\ res' = [routine |-> routine, target |-> target, input |-> data,
               src |-> IF wire.routine # "none" /\ data = wire.bytes
                       THEN wire ELSE NoWire,
               aligned |-> aligned, out |-> out]
    /\ wire' = NoWire
    /\ UNCHANGED <<idl, gen, ovr, vres, app, dsc, got, doc, pc, disk, scan, fmt>>

BytemuckAccountSerialize ==
    /\ gen.ok
    /\ \E i \in DOMAIN gen.account_impls :
        LET a == gen.account_impls[i] IN
        /\ a.strategy = "bytemuck"
        /\ \E v \in StructValues(a.fields) :
              Encoded("bytemuck_account", i, v,
                      bytemuck_serialize_with_discriminator(a, v))

BytemuckAccountDeserialize ==
    /\ gen.ok
    /\ \E i \in DOMAIN gen.account_impls, data \in InputsNow, aligned \in BOOLEAN :
        LET a == gen.account_impls[i] IN
        /\ a.strategy = "bytemuck"
        /\ DecodedAt("bytemuck_account", i, data, aligned,
                     bytemuck_try_from_slice_with_discriminator(a, data, aligned))

InstructionValues(g) ==
    UNION {{[variant |-> g.variants[i].name, args |-> v] :
                v \in StructValues(g.variants[i].args)} : i \in DOMAIN g.variants}

InstructionSerialize ==
    /\ gen.ok
    /\ \E v \in InstructionValues(gen) :
          Encoded("instruction", 0, v, Instruction_serialize(gen, v))

InstructionTryFromSlice ==
    /\ gen.ok
    /\ \E data \in InputsNow :
          Decoded("instruction", 0, data, Instruction_try_from_slice(gen, data))

IxDataSerialize ==
    /\ gen.ok
    /\ \E i \in DOMAIN gen.ix_data :
        \E v \in StructValues(gen.ix_data[i].args) :
          Encoded("ix_data", i, v, IxData_serialize(gen, gen.ix_data[i], v))

IxDataDeserialize ==
    /\ gen.ok
    /\ \E i \in DOMAIN gen.ix_data, data \in InputsNow :
          Decoded("ix_data", i, data, IxData_deserialize(gen, gen.ix_data[i], data))

EventSerialize ==
    /\ gen.ok
    /\ \E i \in DOMAIN gen.events :
        LET w == gen.events[i] IN
        /\ w.emitted /\ w.wrapper
        /\ \E v \in StructValues(w.fields) :
              Encoded("event", i, v, EventWrapper_serialize(w, v))

EventDeserialize ==
    /\ gen.ok
    /\ \E i \in DOMAIN gen.events, data \in InputsNow :
        LET w == gen.events[i] IN
        /\ w.emitted /\ w.wrapper
        /\ Decoded("event", i, data, EventWrapper_deserialize(w, data))

ParseEvent ==
    /\ gen.ok
    /\ gen.parse_arms # <<>>
    /\ \E data \in InputsNow :
          Decoded("parse_event", 0, data, parse_event(gen, data))

CodecNext ==
    \/ Generate
    \/ AccountSerialize
    \/ AccountDeserialize
    \/ BytemuckAccountSerialize
    \/ BytemuckAccountDeserialize
    \/ InstructionSerialize
    \/ InstructionTryFromSlice
    \/ IxDataSerialize
    \/ IxDataDeserialize
    \/ EventSerialize
    \/ EventDeserialize
    \/ ParseEvent

SpecCodec == CodecInit /\ [][CodecNext]_vars

----------------------------------------------------------------------------
(* Properties of the emitted encode and decode routines.                   *)

FromWire(routine) ==
    /\ res.routine = routine
    /\ res.src.routine = routine
    /\ res.src.target = res.target

(* C1: an account (default strategy) or event wrapper that carries a       *)
(* discriminator decodes the bytes its own encode routine wrote to the     *)
(* value that was encoded.                                                 *)
C1_AccountEventRoundTrip ==
    (FromWire("account") \/ FromWire("event"))
        => res.out.ok /\ res.out.val = res.src.value

C1_Witness ==
    /\ FromWire("account")
    /\ res.src.value = <<513, <<7>>>>
    /\ res.input = DiscA \o <<1, 2, 0, 0, 0, 0, 0, 0, 1, 0, 0, 0, 7>>
    /\ res.out.ok

(* The patterns of the dispatch decoder are pairwise distinct.             *)
DistinctPatterns(g) ==
    \A i, j \in DOMAIN g.deserialize_arms :
        i # j => g.deserialize_arms[i].pattern # g.deserialize_arms[j].pattern

(* C2 as stated: Instruction::try_from_slice returns every value that      *)
(* Instruction::serialize wrote, for every schema.                         *)
C2_InstructionRoundTripAnySchema ==
    FromWire("instruction") => res.out = Ok(res.src.value)

(* C2 amended: Instruction::try_from_slice returns every value that        *)
(* Instruction::serialize wrote when the instructions' discriminators      *)
(* (explicit or derived from the position) are pairwise distinct.          *)
C2_InstructionRoundTrip ==
    (FromWire("instruction") /\ DistinctPatterns(gen))
        => res.out = Ok(res.src.value)

C2_Witness ==
    /\ FromWire("instruction")
    /\ DistinctPatterns(gen)
    /\ Len(gen.variants) = 2
    /\ res.src.value = [variant |-> "Swap", args |-> <<513, TRUE>>]
    /\ res.out.ok

(* The error each decode routine returns for an input too short to hold    *)
(* the 8-byte tag.                                                         *)
TooShortError(routine) ==
    CASE routine \in {"account", "bytemuck_account"} ->
            IoError("InvalidData", "Data too short for discriminator")
      [] routine = "instruction" ->
            IoError("InvalidData", "Data too short for instruction discriminator")
      [] routine = "ix_data" ->
            IoError("UnexpectedEof", "failed to fill whole buffer")
      [] routine = "event" ->
            IoError("InvalidData", "Unexpected length of input")
      [] routine = "parse_event" -> [kind |-> "DataTooShort"]

(* C3: every decode routine, given fewer than 8 bytes, returns its         *)
(* too-short error and does not panic.                                     *)
C3_ShortInputIsError ==
    (res.routine # "none" /\ Len(res.input) < 8)
        => /\ ~IsPanic(res.out)
           /\ ~res.out.ok
           /\ res.out.err = TooShortError(res.routine)

C3_Witness ==
    /\ res.routine = "account"
    /\ res.input = <<1, 2, 3>>
    /\ ~res.out.ok

(* The constant a single-target decode routine compares the tag with.      *)
ExpectedTag ==
    CASE res.routine = "account" -> gen.account_impls[res.target].DISCRIMINATOR
      [] res.routine = "ix_data" -> IxDiscm(gen, gen.ix_data[res.target].discm)
      [] res.routine = "event" -> gen.events[res.target].value

(* C4 as stated: a decode routine of an account, instruction or event,     *)
(* given at least 8 bytes whose first 8 differ from its constant, returns  *)
(* a mismatch error that carries the expected and the actual tag.          *)
C4_MismatchCarriesBothTags ==
    (/\ res.routine \in {"account", "ix_data", "event"}
     /\ Len(res.input) >= 8
     /\ SubSeq(res.input, 1, 8) # ExpectedTag)
        => /\ ~res.out.ok
           /\ ~IsPanic(res.out)
           /\ "expected" \in DOMAIN res.out.err
           /\ "received" \in DOMAIN res.out.err
           /\ res.out.err.expected = ExpectedTag
           /\ res.out.err.received = SubSeq(res.input, 1, 8)

(* C5: an instruction without an explicit discriminator at zero-based      *)
(* position i has the 8 little-endian bytes of i as its constant and as    *)
(* its dispatch pattern, and two such declarations that swap places swap   *)
(* their discriminators.                                                   *)
Swapped(l, i, j) == [l EXCEPT ![i] = l[j], ![j] = l[i]]

(* Byte k (from 1, least significant first) of n.                          *)
RECURSIVE LittleEndianByte(_, _)
LittleEndianByte(n, k) ==
    IF k = 1 THEN n % 256 ELSE LittleEndianByte(n \div 256, k - 1)

C5_DerivedDiscriminator ==
    gen.ok =>
        \A i \in DOMAIN idl.instructions :
            IsNone(idl.instructions[i].discriminator) =>
                /\ Len(gen.consts[i].value) = 8
                /\ \A k \in 1..8 :
                        gen.consts[i].value[k] = LittleEndianByte(i - 1, k)
                /\ (i = 1 => gen.consts[i].value = <<0, 0, 0, 0, 0, 0, 0, 0>>)
                /\ (i = 2 => gen.consts[i].value = <<1, 0, 0, 0, 0, 0, 0, 0>>)
                /\ gen.deserialize_arms[i].pattern = gen.consts[i].value
                /\ \A j \in DOMAIN idl.instructions :
                     IsNone(idl.instructions[j].discriminator) =>
                        LET sw == generate_instructions(Swapped(idl.instructions, i, j)) IN
                        /\ sw.consts[i].name = gen.consts[j].name
                        /\ sw.consts[i].value = gen.consts[i].value
                        /\ sw.deserialize_arms[i].pattern = gen.consts[i].value
                        /\ sw.consts[j].name = gen.consts[i].name
                        /\ sw.consts[j].value = gen.consts[j].value

C5_Witness ==
    /\ gen.ok
    /\ Len(idl.instructions) = 2
    /\ IsNone(idl.instructions[1].discriminator)
    /\ IsNone(idl.instructions[2].discriminator)
    /\ idl.instructions[2].args # <<>>
    /\ gen.consts[2].value = <<1, 0, 0, 0, 0, 0, 0, 0>>

(* C6: the schema with the single instruction "Initialize" (no explicit    *)
(* discriminator, no args) compiles to one variant and the constant        *)
(* [0; 8]; the dispatch decoder accepts an input exactly when its first 8  *)
(* bytes are that constant and answers every other 8-byte prefix with the  *)
(* unknown-discriminator error.                                            *)
UnknownInstruction == IoError("InvalidData", "Unknown instruction discriminator")

C6_InitializeOnly ==
    (idl = BaseSchema /\ gen.ran) =>
        /\ gen.ok
        /\ Len(gen.variants) = 1
        /\ gen.variants[1] = [name |-> "Initialize", args |-> <<>>]
        /\ gen.consts[1].value = <<0, 0, 0, 0, 0, 0, 0, 0>>
        /\ res.routine = "instruction" =>
            /\ res.out.ok <=>
                    (Len(res.input) >= 8
                     /\ SubSeq(res.input, 1, 8) = <<0, 0, 0, 0, 0, 0, 0, 0>>)
            /\ res.out.ok => res.out.val = [variant |-> "Initialize", args |-> <<>>]
            /\ (Len(res.input) >= 8 /\ ~res.out.ok)
                    => res.out = Err(UnknownInstruction)

C6_Witness ==
    /\ idl = BaseSchema
    /\ res.routine = "instruction"
    /\ res.input = DiscA \o <<1, 2, 1>>
    /\ res.out = Err(UnknownInstruction)

(* C7 as stated: in Instruction::try_from_slice the error kind of an       *)
(* unmatched prefix differs from the error kind of an input shorter than   *)
(* 8 bytes.                                                                *)
C7_UnmatchedKindDistinct ==
    (/\ res.routine = "instruction"
     /\ Len(res.input) >= 8
     /\ ~res.out.ok
     /\ res.out.err.msg = "Unknown instruction discriminator")
        => res.out.err.kind # Instruction_try_from_slice(gen, <<>>).err.kind

----------------------------------------------------------------------------
(* Override resolver (src/src/override.rs).                                *)
(*                                                                         *)
(* Addresses are sequences of characters.  An override document is         *)
(*   [program_address : Option, accounts, events, instructions]            *)
(* where each of the three maps is a function from names to 8-byte         *)
(* discriminators (HashMap<String, DiscriminatorOverride>).  A HashMap is  *)
(* iterated in an arbitrary order, so a validation that returns at the     *)
(* first offending entry can return the error of any offending entry: the  *)
(* validators below give the set of results the code can return.           *)

Base58Alphabet ==
    <<
      "1", "2", "3", "4", "5", "6", "7", "8", "9", "A", "B", "C",
      "D", "E", "F", "G", "H", "J", "K", "L", "M", "N", "P", "Q",
      "R", "S", "T", "U", "V", "W", "X", "Y", "Z", "a", "b", "c",
      "d", "e", "f", "g", "h", "i", "j", "k", "m", "n", "o", "p",
      "q", "r", "s", "t", "u", "v", "w", "x", "y", "z" >>

IsBase58(c) == \E i \in DOMAIN Base58Alphabet : Base58Alphabet[i] = c

Base58Digit(c) == (CHOOSE i \in DOMAIN Base58Alphabet : Base58Alphabet[i] = c) - 1

(* One step of bs58 decoding: little-endian bytes * 58 + carry.            *)
RECURSIVE bs58_mul_add(_, _)
bs58_mul_add(bytes, carry) ==
    IF bytes = <<>>
    THEN IF carry = 0 THEN <<>>
         ELSE <<carry % 256>> \o bs58_mul_add(<<>>, carry \div 256)
    ELSE LET v == Head(bytes) * 58 + carry IN
         <<v % 256>> \o bs58_mul_add(Tail(bytes), v \div 256)

RECURSIVE bs58_digits(_, _)
bs58_digits(cs, acc) ==
    IF cs = <<>> THEN acc
    ELSE bs58_digits(Tail(cs), bs58_mul_add(acc, Base58Digit(Head(cs))))

RECURSIVE LeadingOnes(_)
LeadingOnes(cs) ==
    IF cs = <<>> \/ Head(cs) # "1" THEN 0 ELSE 1 + LeadingOnes(Tail(cs))

Reverse(bs) == [i \in 1..Len(bs) |-> bs[Len(bs) + 1 - i]]

(* bs58::decode(address).into_vec(): an error on a character outside the   *)
(* alphabet; else the big-endian bytes of the number, after one zero byte  *)
(* per leading '1'.                                                        *)
bs58_decode(cs) ==
    IF \E i \in DOMAIN cs : ~IsBase58(cs[i]) THEN Err("InvalidCharacter")
    ELSE Ok(Reverse(bs58_digits(cs, <<>>) \o [i \in 1..LeadingOnes(cs) |-> 0]))

OkUnit == [ok |-> TRUE]

IsEmptyMap(m) == DOMAIN m = {}

(* Variant: the comparison is with [255; 8], so an all-zero entry passes.  *)
validate_discriminators_accepts_zero(entity_type, overrides) ==
    LET zeros == {n \in DOMAIN overrides : overrides[n] = [k \in 1..8 |-> 255]} IN
    IF zeros = {} THEN {OkUnit}
    ELSE {Err([kind |-> "AllZeroDiscriminator", entity_type |-> entity_type,
               entity_name |-> n]) : n \in zeros}

(* validate_discriminators: the results the loop over the map can return.  *)
validate_discriminators(entity_type, overrides) ==
    LET zeros == {n \in DOMAIN overrides : overrides[n] = [k \in 1..8 |-> 0]} IN
    IF zeros = {} THEN {OkUnit}
    ELSE {Err([kind |-> "AllZeroDiscriminator", entity_type |-> entity_type,
               entity_name |-> n]) : n \in zeros}

(* names.join(", ") keeps every name in order; "(none)" for an empty list. *)
Available(names) ==
    IF names = <<>> THEN [text |-> "(none)"] ELSE [joined |-> names]

(* Variant: names are not checked when the schema has no list of the type. *)
validate_entity_names_lenient(entity_type, override_names, idl_names) ==
    IF override_names = {} THEN {OkUnit}
    ELSE IF IsSome(idl_names)
    THEN LET unknown == {n \in override_names : n \notin Range(idl_names.v)} IN
         IF unknown = {} THEN {OkUnit}
         ELSE {Err([kind |-> "UnknownEntity", entity_type |-> entity_type,
                    entity_name |-> n, available |-> Available(idl_names.v)]) :
                 n \in unknown}
    ELSE {OkUnit}

(* validate_entity_names: override_names is the key set of the map (a Vec  *)
(* in arbitrary order), idl_names the Option of the schema's names.        *)
validate_entity_names(entity_type, override_names, idl_names) ==
    IF override_names = {} THEN {OkUnit}
    ELSE IF IsSome(idl_names)
    THEN LET unknown == {n \in override_names : n \notin Range(idl_names.v)} IN
         IF unknown = {} THEN {OkUnit}
         ELSE {Err([kind |-> "UnknownEntity", entity_type |-> entity_type,
                    entity_name |-> n, available |-> Available(idl_names.v)]) :
                 n \in unknown}
    ELSE {Err([kind |-> "UnknownEntity", entity_type |-> entity_type,
               entity_name |-> n,
               available |-> [text |-> "(none - IDL has no entities defined)",
                              of |-> entity_type]]) :
            n \in override_names}

(* Variant: the decoded bytes are not compared with the all-zero key.      *)
validate_program_address_no_default_check(program_address) ==
    IF IsNone(program_address) THEN OkUnit
    ELSE LET decoded == bs58_decode(program_address.v) IN
         IF ~decoded.ok
         THEN Err([kind |-> "InvalidProgramAddress", address |-> program_address.v])
         ELSE IF Len(decoded.val) # 32
         THEN Err([kind |-> "InvalidProgramAddress", address |-> program_address.v])
         ELSE OkUnit

(* The address check of validate_override_file.                            *)
validate_program_address(program_address) ==
    IF IsNone(program_address) THEN OkUnit
    ELSE LET decoded == bs58_decode(program_address.v) IN
         IF ~decoded.ok
         THEN Err([kind |-> "InvalidProgramAddress", address |-> program_address.v])
         ELSE IF Len(decoded.val) # 32
         THEN Err([kind |-> "InvalidProgramAddress", address |-> program_address.v])
         ELSE IF decoded.val = [i \in 1..32 |-> 0]
         THEN Err([kind |-> "SystemDefaultPubkey", address |-> program_address.v])
         ELSE OkUnit

NamesOf(decls) == [i \in DOMAIN decls |-> decls[i].name]

OptNames(o) == IF IsSome(o) THEN Some(NamesOf(o.v)) ELSE None

(* The results of the first check, in order, that can fail.                *)
RECURSIVE FirstFailing(_)
FirstFailing(checks) ==
    IF checks = <<>> THEN {OkUnit}
    ELSE IF Head(checks) # {OkUnit} THEN Head(checks)
    ELSE FirstFailing(Tail(checks))

(* Variant: no check that the document has at least one override.          *)
validate_override_file_accepts_empty(override_file, schema) ==
    FirstFailing(<<
        {validate_program_address(override_file.program_address)},
        validate_discriminators("account", override_file.accounts),
        validate_discriminators("event", override_file.events),
        validate_discriminators("instruction", override_file.instructions),
        validate_entity_names("account", DOMAIN override_file.accounts,
                              OptNames(schema.accounts)),
        validate_entity_names("event", DOMAIN override_file.events,
                              OptNames(schema.events)),
        validate_entity_names("instruction", DOMAIN override_file.instructions,
                              IF schema.instructions # <<>>
                              THEN Some(NamesOf(schema.instructions)) ELSE None)>>)

(* Variant: the names are checked before the discriminators.               *)
validate_override_file_names_first(override_file, schema) ==
    IF /\ IsNone(override_file.program_address)
       /\ IsEmptyMap(override_file.accounts)
       /\ IsEmptyMap(override_file.events)
       /\ IsEmptyMap(override_file.instructions)
    THEN {Err([kind |-> "EmptyOverrideFile"])}
    ELSE FirstFailing(<<
        {validate_program_address(override_file.program_address)},
        validate_entity_names("account", DOMAIN override_file.accounts,
                              OptNames(schema.accounts)),
        validate_entity_names("event", DOMAIN override_file.events,
                              OptNames(schema.events)),
        validate_entity_names("instruction", DOMAIN override_file.instructions,
                              IF schema.instructions # <<>>
                              THEN Some(NamesOf(schema.instructions)) ELSE None),
        validate_discriminators("account", override_file.accounts),
        validate_discriminators("event", override_file.events),
        validate_discriminators("instruction", override_file.instructions)>>)

(* validate_override_file: the set of results it can return.               *)
validate_override_file(override_file, schema) ==
    IF /\ IsNone(override_file.program_address)
       /\ IsEmptyMap(override_file.accounts)
       /\ IsEmptyMap(override_file.events)
       /\ IsEmptyMap(override_file.instructions)
    THEN {Err([kind |-> "EmptyOverrideFile"])}
    ELSE FirstFailing(<<
        {validate_program_address(override_file.program_address)},
        validate_discriminators("account", override_file.accounts),
        validate_discriminators("event", override_file.events),
        validate_discriminators("instruction", override_file.instructions),
        validate_entity_names("account", DOMAIN override_file.accounts,
                              OptNames(schema.accounts)),
        validate_entity_names("event", DOMAIN override_file.events,
                              OptNames(schema.events)),
        validate_entity_names("instruction", DOMAIN override_file.instructions,
                              IF schema.instructions # <<>>
                              THEN Some(NamesOf(schema.instructions)) ELSE None)>>)

----------------------------------------------------------------------------
(* The schemas and override documents the resolver is exercised on.        *)

AddrValid ==
    <<
      "6", "7", "5", "k", "P", "X", "9", "M", "H", "T", "j", "S",
      "2", "z", "t", "1", "q", "f", "r", "1", "N", "Y", "H", "u",
      "z", "e", "L", "X", "f", "Q", "M", "9", "H", "2", "4", "w",
      "F", "S", "U", "t", "1", "M", "p", "8" >>

AddrSystemDefault == [i \in 1..32 |-> "1"]

AddrNotBase58 ==
    <<
      "n", "o", "t", "-", "a", "-", "v", "a", "l", "i", "d", "-",
      "p", "u", "b", "k", "e", "y" >>

AddrShort == <<"a", "b", "c">>

(* 33 times '1': decodes to 33 zero bytes.                                 *)
AddrZeros33 == [i \in 1..33 |-> "1"]

OvAddresses ==
    {None, Some(AddrValid), Some(AddrSystemDefault), Some(AddrNotBase58),
     Some(AddrShort), Some(AddrZeros33)}

AccountDecl(n) == [name |-> n, discriminator |-> Some(DiscB), ty |-> None]
EventDecl(n) == [name |-> n, discriminator |-> Some(DiscB), fields |-> Some(TradeFields)]
IxDecl(n) == [name |-> n, discriminator |-> None, args |-> ArgsOf(n)]

OvSchemas ==
    {[BaseSchema EXCEPT !.instructions = ixs, !.accounts = accs, !.events = evs] :
        ixs \in {<<>>, <<IxDecl("Initialize")>>, <<IxDecl("Initialize"), IxDecl("swap")>>},
        accs \in {None, Some(<<>>), Some(<<AccountDecl("PoolState")>>),
                  Some(<<AccountDecl("PoolState"), AccountDecl("AmmConfig")>>)},
        evs \in {None, Some(<<EventDecl("TradeEvent")>>)}}

(* Names an override document can use: one the schemas may declare, and    *)
(* two that no schema declares.                                            *)
OvAccountNames == {"PoolState", "Ghost", "Phantom"}
OvEventNames == {"TradeEvent", "Ghost", "Phantom"}
OvIxNames == {"Initialize", "Ghost", "Phantom"}

OvDiscs == {Zero8, DiscA}

OvMaps(names) == UNION {[ks -> OvDiscs] : ks \in SUBSET names}

(* Documents with at most MaxOvEntries discriminator entries in all.       *)
OvDocs ==
    {d \in [program_address : OvAddresses, accounts : OvMaps(OvAccountNames),
            events : OvMaps(OvEventNames), instructions : OvMaps(OvIxNames)] :
        Cardinality(DOMAIN d.accounts) + Cardinality(DOMAIN d.events)
            + Cardinality(DOMAIN d.instructions) <= MaxOvEntries}

----------------------------------------------------------------------------
(* State machine of the override resolver.                                 *)
(*   ovr   the override document that was loaded                           *)
(*   vres  what validate_override_file returned (NoVres before it ran)     *)
(*   app   what apply_overrides returned, with the schema it was given      *)

OverrideInit ==
    /\ idl \in OvSchemas
    /\ ovr \in OvDocs
    /\ vres = NoVres
    /\ gen = NoGen
    /\ wire = NoWire
    /\ res = NoRes
    /\ app = NoApp
    /\ dsc = NoDsc
    /\ got = NoGot
    /\ doc = NoDoc
    /\ pc = NoPc
    /\ disk = NoDisk
    /\ scan = NoScan
    /\ fmt = NoFmt

Validate ==
    /\ ~vres.ran
    /\ ~app.ran
    /\ \E r \in validate_override_file(ovr, idl) :
          vres' = [ran |-> TRUE, out |-> r]
    /\ UNCHANGED <<idl, ovr, gen, wire, res, app, dsc, got, doc, pc, disk, scan, fmt>>

OverrideNext ==
    \/ Validate

SpecOverride == OverrideInit /\ [][OverrideNext]_vars

----------------------------------------------------------------------------
(* Properties of validate_override_file.                                   *)

ZeroEntries(m) == {n \in DOMAIN m : m[n] = <<0, 0, 0, 0, 0, 0, 0, 0>>}

HasZeroDiscriminator(d) ==
    ZeroEntries(d.accounts) \cup ZeroEntries(d.events)
        \cup ZeroEntries(d.instructions) # {}

OvMapOf(d, entity_type) ==
    CASE entity_type = "account" -> d.accounts
      [] entity_type = "event" -> d.events
      [] entity_type = "instruction" -> d.instructions

(* The address override is absent, or decodes to 32 bytes not all zero.    *)
AddressAccepted(d) ==
    \/ IsNone(d.program_address)
    \/ LET decoded == bs58_decode(d.program_address.v) IN
       decoded.ok /\ Len(decoded.val) = 32 /\ \E i \in 1..32 : decoded.val[i] # 0

(* C8 as stated: a document with an all-zero discriminator entry always    *)
(* fails with the all-zero-discriminator error.                            *)
C8_ZeroDiscriminatorAlwaysAllZeroError ==
    (vres.ran /\ HasZeroDiscriminator(ovr))
        => /\ ~vres.out.ok
           /\ vres.out.err.kind = "AllZeroDiscriminator"

(* C8 amended: a document with an all-zero discriminator entry never       *)
(* validates; the error is the all-zero-discriminator error, naming an     *)
(* all-zero entry, when the address override is absent or acceptable, and  *)
(* the address error otherwise.                                            *)
C8_ZeroDiscriminatorRejected ==
    (vres.ran /\ HasZeroDiscriminator(ovr))
        => /\ ~vres.out.ok
           /\ IF AddressAccepted(ovr)
              THEN /\ vres.out.err.kind = "AllZeroDiscriminator"
                   /\ vres.out.err.entity_name
                        \in ZeroEntries(OvMapOf(ovr, vres.out.err.entity_type))
              ELSE vres.out.err.kind
                        \in {"InvalidProgramAddress", "SystemDefaultPubkey"}

C8_Witness ==
    /\ vres.ran
    /\ ovr.program_address = Some(AddrValid)
    /\ DOMAIN ovr.accounts = {"PoolState"}
    /\ ovr.accounts["PoolState"] = DiscA
    /\ ZeroEntries(ovr.events) = {"TradeEvent"}
    /\ IsSome(idl.events)
    /\ ~vres.out.ok
    /\ vres.out.err = [kind |-> "AllZeroDiscriminator", entity_type |-> "event",
                       entity_name |-> "TradeEvent"]

(* The names of an entity type the document uses and the schema lacks.     *)
SchemaNames(schema, entity_type) ==
    CASE entity_type = "account" -> OptSeq(OptNames(schema.accounts))
      [] entity_type = "event" -> OptSeq(OptNames(schema.events))
      [] entity_type = "instruction" -> NamesOf(schema.instructions)

UnknownNames(d, schema, entity_type) ==
    DOMAIN OvMapOf(d, entity_type) \ Range(SchemaNames(schema, entity_type))

HasUnknownName(d, schema) ==
    \E t \in {"account", "event", "instruction"} : UnknownNames(d, schema, t) # {}

(* The error lists the schema's names of the type: the names in order, or  *)
(* a "(none ..." text when the schema has none.                            *)
ListsSchemaNames(err, schema) ==
    IF SchemaNames(schema, err.entity_type) = <<>>
    THEN "text" \in DOMAIN err.available
    ELSE err.available = [joined |-> SchemaNames(schema, err.entity_type)]

(* C9 as stated: a document naming an entity the schema lacks always fails *)
(* with the unknown-entity error (type, name, the schema's names).         *)
C9_UnknownNameAlwaysUnknownEntityError ==
    (vres.ran /\ HasUnknownName(ovr, idl))
        => /\ ~vres.out.ok
           /\ vres.out.err.kind = "UnknownEntity"

(* C9 amended: a document naming an entity the schema lacks never          *)
(* validates; when the address override is absent or acceptable and no     *)
(* entry is all-zero, the error is the unknown-entity error with the       *)
(* entity type, a name of that type the schema lacks, and the schema's     *)
(* names of that type; otherwise it is the address or all-zero error.      *)
C9_UnknownNameRejected ==
    (vres.ran /\ HasUnknownName(ovr, idl))
        => /\ ~vres.out.ok
           /\ IF ~HasZeroDiscriminator(ovr) /\ AddressAccepted(ovr)
              THEN /\ vres.out.err.kind = "UnknownEntity"
                   /\ vres.out.err.entity_name
                        \in UnknownNames(ovr, idl, vres.out.err.entity_type)
                   /\ ListsSchemaNames(vres.out.err, idl)
              ELSE vres.out.err.kind
                        \in {"InvalidProgramAddress", "SystemDefaultPubkey",
                             "AllZeroDiscriminator"}

C9_Witness ==
    /\ vres.ran
    /\ IsNone(ovr.program_address)
    /\ DOMAIN ovr.accounts = {"PoolState", "Ghost"}
    /\ ~HasZeroDiscriminator(ovr)
    /\ idl.accounts = Some(<<AccountDecl("PoolState"), AccountDecl("AmmConfig")>>)
    /\ vres.out = Err([kind |-> "UnknownEntity", entity_type |-> "account",
                       entity_name |-> "Ghost",
                       available |-> [joined |-> <<"PoolState", "AmmConfig">>]])

IsEmptyDocument(d) ==
    /\ IsNone(d.program_address)
    /\ DOMAIN d.accounts = {}
    /\ DOMAIN d.events = {}
    /\ DOMAIN d.instructions = {}

(* C10: validation returns the empty-document error exactly when the       *)
(* document has no address and no entry in any map, whatever the schema.   *)
C10_EmptyDocumentRejected ==
    vres.ran =>
        (vres.out = Err([kind |-> "EmptyOverrideFile"]) <=> IsEmptyDocument(ovr))

C10_Witness ==
    /\ vres.ran
    /\ IsEmptyDocument(ovr)
    /\ idl.accounts = Some(<<AccountDecl("PoolState")>>)
    /\ vres.out = Err([kind |-> "EmptyOverrideFile"])

---------------------------------------------------------------------------
(* Properties of the address check.                                        *)

AddressErrorKinds == {"InvalidProgramAddress", "SystemDefaultPubkey"}

(* C11: with an address override, validation returns the invalid-address   *)
(* error (carrying the address) when the address does not decode to        *)
(* exactly 32 bytes, the system-default error when it decodes to 32 zero   *)
(* bytes, and neither of the two for any other address of 32 bytes.        *)
C11_AddressValidation ==
    (vres.ran /\ IsSome(ovr.program_address)) =>
        LET address == ovr.program_address.v
            decoded == bs58_decode(address) IN
        IF ~decoded.ok \/ Len(decoded.val) # 32
        THEN vres.out = Err([kind |-> "InvalidProgramAddress", address |-> address])
        ELSE IF \A i \in 1..32 : decoded.val[i] = 0
        THEN vres.out = Err([kind |-> "SystemDefaultPubkey", address |-> address])
        ELSE vres.out.ok \/ vres.out.err.kind \notin AddressErrorKinds

C11_Witness ==
    /\ vres.ran
    /\ ovr.program_address = Some(AddrSystemDefault)
    /\ DOMAIN ovr.accounts = {"PoolState"}
    /\ vres.out = Err([kind |-> "SystemDefaultPubkey", address |-> AddrSystemDefault])

----------------------------------------------------------------------------
(* The order of the checks of validate_override_file.                      *)

EntityKinds == {"account", "event", "instruction"}

TypeIndex(entity_type) ==
    CASE entity_type = "account" -> 0
      [] entity_type = "event" -> 1
      [] entity_type = "instruction" -> 2

(* The checks a document fails against a schema, each taken alone, by      *)
(* their place in the order: 1 empty document; 2 address not 32 bytes;     *)
(* 3 address all zero; 4, 5, 6 an all-zero entry for accounts, events,     *)
(* instructions; 7, 8, 9 a name the schema lacks for accounts, events,     *)
(* instructions.                                                           *)
FailedChecks(d, schema) ==
    {k \in {1} : IsEmptyDocument(d)}
    \cup {k \in {2} : /\ IsSome(d.program_address)
                       /\ LET decoded == bs58_decode(d.program_address.v) IN
                          ~decoded.ok \/ Len(decoded.val) # 32}
    \cup {k \in {3} : /\ IsSome(d.program_address)
                       /\ LET decoded == bs58_decode(d.program_address.v) IN
                          /\ decoded.ok
                          /\ Len(decoded.val) = 32
                          /\ \A i \in 1..32 : decoded.val[i] = 0}
    \cup {4 + TypeIndex(t) : t \in {u \in EntityKinds : ZeroEntries(OvMapOf(d, u)) # {}}}
    \cup {7 + TypeIndex(t) : t \in {u \in EntityKinds : UnknownNames(d, schema, u) # {}}}

(* The place in the order of the check an error comes from.                *)
CheckOf(err) ==
    CASE err.kind = "EmptyOverrideFile" -> 1
      [] err.kind = "InvalidProgramAddress" -> 2
      [] err.kind = "SystemDefaultPubkey" -> 3
      [] err.kind = "AllZeroDiscriminator" -> 4 + TypeIndex(err.entity_type)
      [] err.kind = "UnknownEntity" -> 7 + TypeIndex(err.entity_type)

(* C24: validation returns Ok exactly when the document fails no check,    *)
(* and otherwise the error of the earliest check, in the fixed order, that *)
(* the document fails.                                                     *)
C24_FirstFailingCheckInOrder ==
    vres.ran =>
        LET failed == FailedChecks(ovr, idl) IN
        IF failed = {} THEN vres.out.ok
        ELSE /\ ~vres.out.ok
             /\ CheckOf(vres.out.err) \in failed
             /\ \A k \in failed : CheckOf(vres.out.err) <= k

C24_Witness ==
    /\ vres.ran
    /\ ovr.program_address = Some(AddrValid)
    /\ DOMAIN ovr.accounts = {"Ghost"}
    /\ ovr.accounts["Ghost"] = DiscA
    /\ DOMAIN ovr.events = {"TradeEvent"}
    /\ ovr.events["TradeEvent"] = Zero8
    /\ 7 \in FailedChecks(ovr, idl)
    /\ vres.out = Err([kind |-> "AllZeroDiscriminator", entity_type |-> "event",
                       entity_name |-> "TradeEvent"])

----------------------------------------------------------------------------
(* apply_overrides (src/src/override.rs).                                  *)
(*                                                                         *)
(* An audit record (AppliedOverride) is                                    *)
(*   [override_type, entity_name : Option, original_value : Option,        *)
(*    override_value].                                                     *)
(* format!("{:?}", bytes) is kept as [debug |-> bytes]; the literal        *)
(* "(none)" as [text |-> "(none)"].                                        *)

DebugBytes(bytes) == [debug |-> bytes]

NoneMarker == [text |-> "(none)"]

(* Variant: an entry that already has a discriminator keeps it.            *)
apply_discriminators_fill_missing(decls, overrides) ==
    [i \in DOMAIN decls |->
        IF decls[i].name \in DOMAIN overrides /\ IsNone(decls[i].discriminator)
        THEN [decls[i] EXCEPT !.discriminator = Some(overrides[decls[i].name])]
        ELSE decls[i]]

(* Variant: the result keeps only the entries that were overridden.        *)
apply_discriminators_only_matched(decls, overrides) ==
    LET Hit(d) == d.name \in DOMAIN overrides
        hits == SelectSeq(decls, Hit) IN
    [i \in DOMAIN hits |->
        [hits[i] EXCEPT !.discriminator = Some(overrides[hits[i].name])]]

(* The loop over accounts, events or instructions: each entry whose name   *)
(* is a key of the map gets Some(disc_override.discriminator.to_vec()).    *)
apply_discriminators(decls, overrides) ==
    [i \in DOMAIN decls |->
        IF decls[i].name \in DOMAIN overrides
        THEN [decls[i] EXCEPT !.discriminator = Some(overrides[decls[i].name])]
        ELSE decls[i]]

(* Variant: the records are pushed last declaration first.                 *)
applied_discriminators_reversed(override_type, decls, overrides) ==
    LET Hit(d) == d.name \in DOMAIN overrides
        hits == SelectSeq(decls, Hit)
        n == Len(hits) IN
    [i \in DOMAIN hits |->
        [override_type |-> override_type,
         entity_name |-> Some(hits[n + 1 - i].name),
         original_value |-> Some(IF IsSome(hits[n + 1 - i].discriminator)
                                 THEN DebugBytes(hits[n + 1 - i].discriminator.v)
                                 ELSE NoneMarker),
         override_value |-> DebugBytes(overrides[hits[n + 1 - i].name])]]

(* The audit records the same loop pushes, in declaration order.           *)
applied_discriminators(override_type, decls, overrides) ==
    LET Hit(d) == d.name \in DOMAIN overrides
        hits == SelectSeq(decls, Hit) IN
    [i \in DOMAIN hits |->
        [override_type |-> override_type,
         entity_name |-> Some(hits[i].name),
         original_value |-> Some(IF IsSome(hits[i].discriminator)
                                 THEN DebugBytes(hits[i].discriminator.v)
                                 ELSE NoneMarker),
         override_value |-> DebugBytes(overrides[hits[i].name])]]

(* apply_overrides: Ok((idl, applied)).                                    *)
apply_overrides(schema, override_file) ==
    LET new_address == override_file.program_address
        address_applied ==
            IF IsSome(new_address)
            THEN <<[override_type |-> "ProgramAddress",
                    entity_name |-> None,
                    original_value |-> schema.address,
                    override_value |-> new_address.v]>>
            ELSE <<>>
    IN Ok([idl |->
             [schema EXCEPT
                !.address = IF IsSome(new_address) THEN Some(new_address.v) ELSE @,
                !.accounts = IF IsSome(@)
                             THEN Some(apply_discriminators(@.v, override_file.accounts))
                             ELSE @,
                !.events = IF IsSome(@)
                           THEN Some(apply_discriminators(@.v, override_file.events))
                           ELSE @,
                !.instructions = apply_discriminators(@, override_file.instructions)],
           applied |->
             address_applied
             \o applied_discriminators("AccountDiscriminator",
                                       OptSeq(schema.accounts), override_file.accounts)
             \o applied_discriminators("EventDiscriminator",
                                       OptSeq(schema.events), override_file.events)
             \o applied_discriminators("InstructionDiscriminator",
                                       schema.instructions, override_file.instructions)])

----------------------------------------------------------------------------
(* The schemas and override documents apply_overrides is exercised on.     *)

AddrOld == [i \in 1..32 |-> IF i = 32 THEN "2" ELSE "1"]

AddrMeta ==
    <<
      "T", "o", "k", "e", "n", "k", "e", "g", "Q", "f", "e", "Z",
      "y", "i", "N", "w", "A", "J", "b", "N", "b", "G", "K", "P",
      "F", "X", "C", "W", "u", "B", "v", "f", "9", "S", "s", "6",
      "2", "3", "V", "Q", "5", "D", "A" >>

MetadataOf(address) == [name |-> None, version |-> None, address |-> address]

PoolType ==
    [name |-> "PoolState", ty |-> StructBody(PoolFields), serialization |-> None,
     repr |-> None]

(* One account PoolState, with its body inline, as the type of its name,   *)
(* or missing.                                                             *)
ApplyAccounts ==
    {[accounts |-> None, types |-> None]}
    \cup {[accounts |-> Some(<<[name |-> "PoolState", discriminator |-> d,
                               ty |-> Some(StructBody(PoolFields))]>>),
           types |-> None] : d \in {None, Some(DiscB)}}
    \cup {[accounts |-> Some(<<[name |-> "PoolState", discriminator |-> d,
                               ty |-> None]>>),
           types |-> Some(<<PoolType>>)] : d \in {None, Some(DiscB)}}
    \cup {[accounts |-> Some(<<[name |-> "PoolState", discriminator |-> Some(DiscB),
                               ty |-> None]>>),
           types |-> None]}

ApplySchemas ==
    {[BaseSchema EXCEPT
        !.address = a, !.metadata = m, !.instructions = ixs,
        !.accounts = accs.accounts, !.types = accs.types, !.events = evs] :
        a \in {None, Some(AddrOld)},
        m \in {None, Some(MetadataOf(Some(AddrMeta)))},
        ixs \in {<<>>, <<IxDecl("Initialize")>>,
                 <<IxDecl("Initialize"),
                   [name |-> "swap", discriminator |-> Some(DiscB),
                    args |-> ArgsOf("swap")]>>},
        accs \in ApplyAccounts,
        evs \in {None} \cup
                {Some(<<[name |-> "TradeEvent", discriminator |-> d,
                         fields |-> Some(TradeFields)]>>) : d \in {None, Some(DiscB)}}}

ApplyMaps(names) == UNION {[ks -> {DiscA}] : ks \in SUBSET names}

(* Documents with at most MaxOvEntries discriminator entries in all.       *)
ApplyDocs ==
    {d \in [program_address : {None, Some(AddrValid), Some(AddrShort)},
            accounts : ApplyMaps({"PoolState"}),
            events : ApplyMaps({"TradeEvent"}),
            instructions : ApplyMaps({"Initialize", "swap"})] :
        Cardinality(DOMAIN d.accounts) + Cardinality(DOMAIN d.events)
            + Cardinality(DOMAIN d.instructions) <= MaxOvEntries}

----------------------------------------------------------------------------
(* State machine of validation, application and generation.  The schema    *)
(* is validated, the overrides are applied to it, and the generator runs   *)
(* on the result; apply_overrides can also be called on a schema that was  *)
(* not validated, and the generator on a schema without overrides.         *)

ApplyInit ==
    /\ idl \in ApplySchemas
    /\ ovr \in ApplyDocs
    /\ vres = NoVres
    /\ app = NoApp
    /\ gen = NoGen
    /\ wire = NoWire
    /\ res = NoRes
    /\ dsc = NoDsc
    /\ got = NoGot
    /\ doc = NoDoc
    /\ pc = NoPc
    /\ disk = NoDisk
    /\ scan = NoScan
    /\ fmt = NoFmt

Apply ==
    /\ ~app.ran
    /\ ~gen.ran
    /\ LET r == apply_overrides(idl, ovr) IN
        /\ app' = [ran |-> TRUE, before |-> idl,
                   validated |-> vres.ran /\ vres.out.ok,
                   ok |-> r.ok, applied |-> r.val.applied]
        /\ idl' = r.val.idl
    /\ UNCHANGED <<ovr, vres, gen, wire, res, dsc, got, doc, pc, disk, scan, fmt>>

ApplyNext ==
    \/ Validate
    \/ Apply
    \/ Generate

SpecApply == ApplyInit /\ [][ApplyNext]_vars

----------------------------------------------------------------------------
(* Properties of apply_overrides.                                          *)

(* C12: after apply_overrides with an address override, the resolved       *)
(* address of the schema is the override address, and the original value   *)
(* of the address audit record is the resolved address the schema had      *)
(* before the call (None when it had none, top-level or under metadata).   *)
C12_AddressAuditMatchesResolved ==
    (app.ran /\ IsSome(ovr.program_address)) =>
        /\ get_address(idl) = Some(ovr.program_address.v)
        /\ app.applied[1].override_type = "ProgramAddress"
        /\ app.applied[1].override_value = ovr.program_address.v
        /\ app.applied[1].original_value = get_address(app.before)

EntityTypes == {"account", "event", "instruction"}

DeclsOf(schema, entity_type) ==
    CASE entity_type = "account" -> OptSeq(schema.accounts)
      [] entity_type = "event" -> OptSeq(schema.events)
      [] entity_type = "instruction" -> schema.instructions

AuditTypeOf(entity_type) ==
    CASE entity_type = "account" -> "AccountDiscriminator"
      [] entity_type = "event" -> "EventDiscriminator"
      [] entity_type = "instruction" -> "InstructionDiscriminator"

(* C13: apply_overrides returns Ok for every schema and document, and for  *)
(* each account, event and instruction whose name is a key of its override *)
(* map the result has the override's 8 bytes as discriminator and the      *)
(* audit list has a record with the entity's name, the prior discriminator *)
(* (or the "(none)" marker) and the override bytes.                        *)
C13_DiscriminatorsAppliedAndAudited ==
    app.ran =>
        /\ app.ok
        /\ \A t \in EntityTypes :
            LET before == DeclsOf(app.before, t)
                after == DeclsOf(idl, t)
                overrides == OvMapOf(ovr, t) IN
            /\ Len(after) = Len(before)
            /\ \A i \in DOMAIN before :
                before[i].name \in DOMAIN overrides =>
                    /\ after[i].name = before[i].name
                    /\ after[i].discriminator = Some(overrides[before[i].name])
                    /\ Len(after[i].discriminator.v) = 8
                    /\ \E k \in DOMAIN app.applied :
                        app.applied[k] =
                            [override_type |-> AuditTypeOf(t),
                             entity_name |-> Some(before[i].name),
                             original_value |->
                                Some(IF IsSome(before[i].discriminator)
                                     THEN [debug |-> before[i].discriminator.v]
                                     ELSE [text |-> "(none)"]),
                             override_value |-> [debug |-> overrides[before[i].name]]]

C13_Witness ==
    /\ app.ran
    /\ app.validated
    /\ IsSome(app.before.accounts)
    /\ app.before.accounts.v[1].discriminator = Some(DiscB)
    /\ IsSome(app.before.events)
    /\ app.before.events.v[1].discriminator = None
    /\ DOMAIN ovr.accounts = {"PoolState"}
    /\ DOMAIN ovr.events = {"TradeEvent"}
    /\ idl.accounts.v[1].discriminator = Some(DiscA)
    /\ idl.events.v[1].discriminator = Some(DiscA)
    /\ Len(app.applied) = 2
    /\ app.applied[2].original_value = Some([text |-> "(none)"])

(* C25: apply_overrides keeps every list's length and order, leaves every  *)
(* account, event and instruction whose name is no key of its override map *)
(* as it was, changes nothing but the discriminator of the others, and     *)
(* changes no other part of the schema than the top-level address (which   *)
(* changes only with an address override).                                 *)
C25_ApplyChangesNothingElse ==
    app.ran =>
        /\ idl.name = app.before.name
        /\ idl.version = app.before.version
        /\ idl.metadata = app.before.metadata
        /\ idl.types = app.before.types
        /\ idl.errors = app.before.errors
        /\ IsNone(ovr.program_address) => idl.address = app.before.address
        /\ IsSome(idl.accounts) = IsSome(app.before.accounts)
        /\ IsSome(idl.events) = IsSome(app.before.events)
        /\ \A t \in EntityTypes :
            LET before == DeclsOf(app.before, t)
                after == DeclsOf(idl, t)
                overrides == OvMapOf(ovr, t) IN
            /\ Len(after) = Len(before)
            /\ \A i \in DOMAIN before :
                /\ after[i] = [before[i] EXCEPT !.discriminator = after[i].discriminator]
                /\ before[i].name \notin DOMAIN overrides => after[i] = before[i]

C25_Witness ==
    /\ app.ran
    /\ IsSome(app.before.metadata)
    /\ IsSome(app.before.types)
    /\ IsNone(ovr.program_address)
    /\ IsSome(app.before.address)
    /\ Len(app.before.instructions) = 2
    /\ DOMAIN ovr.instructions = {"swap"}
    /\ idl.instructions[1] = app.before.instructions[1]
    /\ idl.instructions[2].discriminator = Some(DiscA)
    /\ app.before.instructions[2].discriminator = Some(DiscB)
    /\ idl.instructions[2].args = SwapArgs

(* The declarations of a list whose name is a key of the override map, in  *)
(* declaration order, as (record type, name) pairs.                        *)
RECURSIVE MatchedKeys(_, _, _)
MatchedKeys(override_type, decls, overrides) ==
    IF decls = <<>> THEN <<>>
    ELSE (IF Head(decls).name \in DOMAIN overrides
          THEN <<<<override_type, Some(Head(decls).name)>>>> ELSE <<>>)
         \o MatchedKeys(override_type, Tail(decls), overrides)

(* C26: the audit list has exactly one record per declaration whose name   *)
(* is a key of its override map, and one for the address override when     *)
(* there is one: the address first, then accounts, events, instructions,   *)
(* each in declaration order; an entry of a map that names no declaration  *)
(* gives no record and no error.                                           *)
C26_AuditRecordsInOrder ==
    app.ran =>
        /\ app.ok
        /\ [k \in DOMAIN app.applied |->
                <<app.applied[k].override_type, app.applied[k].entity_name>>]
           = (IF IsSome(ovr.program_address)
              THEN <<<<"ProgramAddress", None>>>> ELSE <<>>)
             \o MatchedKeys("AccountDiscriminator", DeclsOf(app.before, "account"),
                            ovr.accounts)
             \o MatchedKeys("EventDiscriminator", DeclsOf(app.before, "event"),
                            ovr.events)
             \o MatchedKeys("InstructionDiscriminator",
                            DeclsOf(app.before, "instruction"), ovr.instructions)

C26_Witness ==
    /\ app.ran
    /\ app.ok
    /\ IsSome(ovr.program_address)
    /\ IsNone(app.before.accounts)
    /\ DOMAIN ovr.accounts = {"PoolState"}
    /\ DOMAIN ovr.instructions = {"Initialize"}
    /\ Len(app.before.instructions) = 2
    /\ Len(app.applied) = 2
    /\ app.applied[2].entity_name = Some("Initialize")

----------------------------------------------------------------------------
(* Properties of generation after validation and application.              *)

(* The emitted impl blocks of an account name.                             *)
ImplsOf(g, name) == {i \in DOMAIN g.account_impls : g.account_impls[i].name = name}

(* The account of the name has a struct body: inline, or as the type of    *)
(* its name.                                                               *)
HasBody(schema, name) ==
    \/ \E i \in DOMAIN OptSeq(schema.accounts) :
            schema.accounts.v[i].name = name /\ IsSome(schema.accounts.v[i].ty)
    \/ \E i \in DOMAIN OptSeq(schema.types) : schema.types.v[i].name = name

(* C14: when a validated document was applied and the generator then ran   *)
(* on the result, the emitted address is the override address, and the     *)
(* constant emitted for every overridden account, event and instruction    *)
(* has the override's bytes: DISCRIMINATOR of the account's impl block,    *)
(* {NAME}_EVENT_DISCM and {NAME}_IX_DISCM.                                 *)
C14_EmittedConstantsAreOverrides ==
    (app.ran /\ app.validated /\ gen.ran /\ gen.ok) =>
        /\ IsSome(ovr.program_address)
                => gen.program_id = Some(ovr.program_address.v)
        /\ \A n \in DOMAIN ovr.accounts :
            /\ HasBody(idl, n) => ImplsOf(gen, n) # {}
            /\ \A i \in ImplsOf(gen, n) :
                    gen.account_impls[i].DISCRIMINATOR = ovr.accounts[n]
        /\ \A n \in DOMAIN ovr.events :
            \A i \in DOMAIN gen.events :
                (gen.events[i].emitted /\ gen.events[i].name = n)
                    => /\ gen.events[i].wrapper
                       /\ gen.events[i].value = ovr.events[n]
        /\ \A n \in DOMAIN ovr.instructions :
            /\ \E i \in DOMAIN gen.consts : gen.consts[i].name = to_snake_upper(n)
            /\ \A i \in DOMAIN gen.consts :
                    gen.consts[i].name = to_snake_upper(n)
                        => gen.consts[i].value = ovr.instructions[n]

C14_Witness ==
    /\ app.ran /\ app.validated /\ gen.ran /\ gen.ok
    /\ ovr.program_address = Some(AddrValid)
    /\ app.before.address = Some(AddrOld)
    /\ IsSome(app.before.metadata)
    /\ DOMAIN ovr.accounts = {"PoolState"}
    /\ app.before.accounts.v[1].discriminator = Some(DiscB)
    /\ DOMAIN ovr.instructions = {"swap"}
    /\ gen.program_id = Some(AddrValid)
    /\ Len(gen.account_impls) = 1
    /\ gen.account_impls[1].DISCRIMINATOR = DiscA
    /\ IxDiscm(gen, to_snake_upper("swap")) = DiscA

----------------------------------------------------------------------------
(* discover_override_file (src/src/override.rs).                           *)
(*                                                                         *)
(* A path is a sequence of text pieces; exists is the set of paths at      *)
(* which the file system has a file (Path::exists).                        *)

ConventionPath(idl_name) == <<"./overrides/", idl_name, ".json">>

GlobalPath == <<"./idl-overrides.json">>

Found(path) == [tag |-> "Found", path |-> path]

NotFound == [tag |-> "NotFound"]

Conflict(files, sources) == [tag |-> "Conflict", files |-> files, sources |-> sources]

(* Variant: with several candidates the first one is returned.             *)
convention_discovery_first_wins(exists, idl_name) ==
    LET convention_path == ConventionPath(idl_name)
        global_path == GlobalPath
        found1 == IF convention_path \in exists THEN <<convention_path>> ELSE <<>>
        found_files ==
            IF global_path \in exists /\ global_path \notin Range(found1)
            THEN found1 \o <<global_path>> ELSE found1
    IN IF Len(found_files) = 0 THEN NotFound ELSE Found(found_files[1])

(* Variant: the global fallback location is not looked at.                 *)
convention_discovery_no_global(exists, idl_name) ==
    LET convention_path == ConventionPath(idl_name) IN
    IF convention_path \in exists THEN Found(convention_path) ELSE NotFound

(* The convention-based part: the candidates in the order conventional,    *)
(* global, each pushed with its source label.                              *)
convention_discovery(exists, idl_name) ==
    LET convention_path == ConventionPath(idl_name)
        global_path == GlobalPath
        found1 == IF convention_path \in exists THEN <<convention_path>> ELSE <<>>
        sources1 == IF convention_path \in exists
                    THEN <<"convention-based discovery">> ELSE <<>>
        push == global_path \in exists /\ global_path \notin Range(found1)
        found_files == IF push THEN found1 \o <<global_path>> ELSE found1
        sources == IF push THEN sources1 \o <<"global fallback">> ELSE sources1
    IN IF Len(found_files) = 0 THEN NotFound
       ELSE IF Len(found_files) = 1 THEN Found(found_files[1])
       ELSE Conflict(found_files, sources)

(* Variant: an existing explicit path is one more candidate.               *)
discover_override_file_explicit_as_candidate(exists, idl_name, explicit_override) ==
    LET rest == convention_discovery(exists, idl_name) IN
    IF IsSome(explicit_override) /\ explicit_override.v \in exists
    THEN IF rest.tag = "NotFound" THEN Found(explicit_override.v)
         ELSE IF rest.tag = "Found"
         THEN Conflict(<<explicit_override.v, rest.path>>,
                       <<"explicit CLI", "convention-based discovery">>)
         ELSE Conflict(<<explicit_override.v>> \o rest.files,
                       <<"explicit CLI">> \o rest.sources)
    ELSE rest

(* Variant: a missing explicit path falls back to the convention.          *)
discover_override_file_falls_back(exists, idl_name, explicit_override) ==
    IF IsSome(explicit_override) /\ explicit_override.v \in exists
    THEN Found(explicit_override.v)
    ELSE convention_discovery(exists, idl_name)

(* discover_override_file: the OverrideDiscovery inside the Ok.            *)
discover_override_file(exists, idl_name, explicit_override) ==
    IF IsSome(explicit_override)
    THEN IF explicit_override.v \in exists
         THEN Found(explicit_override.v)
         ELSE NotFound
    ELSE convention_discovery(exists, idl_name)

----------------------------------------------------------------------------
(* State machine of discovery: dsc holds the call's inputs (the files that *)
(* exist, the schema name, the explicit path) and, once it ran, its        *)
(* result.                                                                 *)

IdlNameSet == {"raydium_amm", "pump"}

CustomPath == <<"custom/fix.json">>

AllPaths == {ConventionPath(n) : n \in IdlNameSet} \cup {GlobalPath, CustomPath}

ExplicitPaths == {None} \cup {Some(p) : p \in AllPaths}

DiscoverInit ==
    /\ \E fs \in SUBSET AllPaths, n \in IdlNameSet, e \in ExplicitPaths :
          dsc = [ran |-> FALSE, exists |-> fs, idl_name |-> n,
                 explicit_override |-> e]
    /\ idl = BaseSchema
    /\ gen = NoGen
    /\ wire = NoWire
    /\ res = NoRes
    /\ ovr = NoOvr
    /\ vres = NoVres
    /\ app = NoApp
    /\ got = NoGot
    /\ doc = NoDoc
    /\ pc = NoPc
    /\ disk = NoDisk
    /\ scan = NoScan
    /\ fmt = NoFmt

Discover ==
    /\ ~dsc.ran
    /\ dsc' = [ran |-> TRUE, exists |-> dsc.exists, idl_name |-> dsc.idl_name,
               explicit_override |-> dsc.explicit_override,
               out |-> discover_override_file(dsc.exists, dsc.idl_name,
                                              dsc.explicit_override)]
    /\ UNCHANGED <<idl, gen, wire, res, ovr, vres, app, got, doc, pc, disk, scan, fmt>>

DiscoverNext ==
    \/ Discover

SpecDiscover == DiscoverInit /\ [][DiscoverNext]_vars

----------------------------------------------------------------------------
(* Properties of discovery.                                                *)

(* C15: without an explicit path, when the conventional file of the schema *)
(* and the global fallback file both exist, the result is Conflict with    *)
(* the two paths and their source labels, in the same order.               *)
C15_BothFilesConflict ==
    (/\ dsc.ran
     /\ IsNone(dsc.explicit_override)
     /\ ConventionPath(dsc.idl_name) \in dsc.exists
     /\ GlobalPath \in dsc.exists)
        => /\ dsc.out.tag = "Conflict"
           /\ Len(dsc.out.files) = Len(dsc.out.sources)
           /\ dsc.out.files = <<ConventionPath(dsc.idl_name), GlobalPath>>
           /\ dsc.out.sources = <<"convention-based discovery", "global fallback">>

C15_Witness ==
    /\ dsc.ran
    /\ IsNone(dsc.explicit_override)
    /\ dsc.idl_name = "pump"
    /\ dsc.exists = {ConventionPath("pump"), GlobalPath}
    /\ dsc.out.tag = "Conflict"
    /\ Len(dsc.out.files) = 2

(* C16: with an explicit path at which a file exists, the result is Found  *)
(* with that path, whichever other files exist.                            *)
C16_ExplicitExistingFound ==
    (/\ dsc.ran
     /\ IsSome(dsc.explicit_override)
     /\ dsc.explicit_override.v \in dsc.exists)
        => dsc.out = [tag |-> "Found", path |-> dsc.explicit_override.v]

C16_Witness ==
    /\ dsc.ran
    /\ dsc.explicit_override = Some(CustomPath)
    /\ dsc.idl_name = "pump"
    /\ dsc.exists = {CustomPath, ConventionPath("pump"), GlobalPath}
    /\ dsc.out = [tag |-> "Found", path |-> CustomPath]

(* What the conventional and global locations alone give.                  *)
ByConvention(exists, idl_name) ==
    LET c == ConventionPath(idl_name) \in exists
        g == GlobalPath \in exists IN
    IF c /\ g THEN "Conflict" ELSE IF c \/ g THEN "Found" ELSE "NotFound"

(* C17 as stated: with an explicit path at which no file exists, the       *)
(* result is the one the conventional and global locations determine.      *)
C17_MissingExplicitFallsBack ==
    (/\ dsc.ran
     /\ IsSome(dsc.explicit_override)
     /\ dsc.explicit_override.v \notin dsc.exists)
        => dsc.out.tag = ByConvention(dsc.exists, dsc.idl_name)

(* C17 amended: with an explicit path at which no file exists, the result  *)
(* is NotFound, whichever conventional and global files exist.             *)
C17_MissingExplicitNotFound ==
    (/\ dsc.ran
     /\ IsSome(dsc.explicit_override)
     /\ dsc.explicit_override.v \notin dsc.exists)
        => dsc.out = [tag |-> "NotFound"]

C17_Witness ==
    /\ dsc.ran
    /\ dsc.explicit_override = Some(CustomPath)
    /\ dsc.idl_name = "pump"
    /\ dsc.exists = {ConventionPath("pump")}
    /\ dsc.out = [tag |-> "NotFound"]

(* C23: without an explicit path, the result is NotFound when neither the  *)
(* conventional file of the schema nor the global fallback file exists,    *)
(* and Found with the path of the one that exists when exactly one does.   *)
C23_ConventionThenGlobal ==
    (dsc.ran /\ IsNone(dsc.explicit_override)) =>
        LET c == ConventionPath(dsc.idl_name) \in dsc.exists
            g == GlobalPath \in dsc.exists IN
        /\ (~c /\ ~g) => dsc.out = [tag |-> "NotFound"]
        /\ (c /\ ~g) => dsc.out = [tag |-> "Found",
                                   path |-> ConventionPath(dsc.idl_name)]
        /\ (~c /\ g) => dsc.out = [tag |-> "Found", path |-> GlobalPath]

C23_Witness ==
    /\ dsc.ran
    /\ IsNone(dsc.explicit_override)
    /\ dsc.idl_name = "pump"
    /\ dsc.exists = {GlobalPath, ConventionPath("raydium_amm"), CustomPath}
    /\ dsc.out = [tag |-> "Found", path |-> GlobalPath]

----------------------------------------------------------------------------
(* State machine of the schema accessors: got holds, for each accessor     *)
(* that was called, what it returned.                                      *)

AccessorSchemas ==
    {[BaseSchema EXCEPT !.address = a, !.name = n, !.version = v, !.metadata = m] :
        a \in {None, Some(AddrOld)},
        n \in {None, Some("amm")},
        v \in {None, Some("1.0.0")},
        m \in {None} \cup
              {Some(md) : md \in [name : {None, Some("amm_v2")},
                                  version : {None, Some("2.0.0")},
                                  address : {None, Some(AddrMeta)}]}}

AccessorInit ==
    /\ idl \in AccessorSchemas
    /\ got = [ran |-> FALSE, name |-> None, version |-> None, address |-> None]
    /\ gen = NoGen
    /\ wire = NoWire
    /\ res = NoRes
    /\ ovr = NoOvr
    /\ vres = NoVres
    /\ app = NoApp
    /\ dsc = NoDsc
    /\ doc = NoDoc
    /\ pc = NoPc
    /\ disk = NoDisk
    /\ scan = NoScan
    /\ fmt = NoFmt

GetName ==
    /\ IsNone(got.name)
    /\ got' = [got EXCEPT !.ran = TRUE, !.name = Some(get_name(idl))]
    /\ UNCHANGED <<idl, gen, wire, res, ovr, vres, app, dsc, doc, pc, disk, scan, fmt>>

GetVersion ==
    /\ IsNone(got.version)
    /\ got' = [got EXCEPT !.ran = TRUE, !.version = Some(get_version(idl))]
    /\ UNCHANGED <<idl, gen, wire, res, ovr, vres, app, dsc, doc, pc, disk, scan, fmt>>

GetAddress ==
    /\ IsNone(got.address)
    /\ got' = [got EXCEPT !.ran = TRUE, !.address = Some(get_address(idl))]
    /\ UNCHANGED <<idl, gen, wire, res, ovr, vres, app, dsc, doc, pc, disk, scan, fmt>>

AccessorNext ==
    \/ GetName
    \/ GetVersion
    \/ GetAddress

SpecAccessors == AccessorInit /\ [][AccessorNext]_vars

----------------------------------------------------------------------------
(* Properties of the accessors.                                            *)

(* The top-level value when present, else the value under metadata when    *)
(* present, else the default.                                              *)
TopLevelFirst(top, schema, field, default) ==
    IF IsSome(top) THEN top.v
    ELSE IF IsSome(schema.metadata) /\ IsSome(schema.metadata.v[field])
    THEN schema.metadata.v[field].v
    ELSE default

(* C18: each of get_name, get_version and get_address returns the          *)
(* top-level value when present, else the value under metadata when        *)
(* present, else its default ("unknown", "0.0.0", no address).             *)
C18_TopLevelFirstForAll ==
    /\ IsSome(got.name)
            => got.name.v = TopLevelFirst(idl.name, idl, "name", "unknown")
    /\ IsSome(got.version)
            => got.version.v = TopLevelFirst(idl.version, idl, "version", "0.0.0")
    /\ IsSome(got.address)
            => got.address.v =
                    (IF IsSome(idl.address) \/ (IsSome(idl.metadata)
                                                /\ IsSome(idl.metadata.v.address))
                     THEN Some(TopLevelFirst(idl.address, idl, "address", <<>>))
                     ELSE None)

----------------------------------------------------------------------------
(* Parsing a schema (serde_json::from_str::<Idl> in src/src/main.rs, the   *)
(* derives of src/src/idl.rs).  A JSON document is kept as the parts the   *)
(* claims are about: per instruction, account and event, the JSON value of *)
(* "discriminator" (absent, or an array of integers).                      *)

JsonAbsent == [present |-> FALSE]

JsonArray(xs) == [present |-> TRUE, array |-> xs]

(* #[serde(default)] discriminator: Option<Vec<u8>>: None when absent;     *)
(* every element must be a u8; any number of elements is taken.            *)
deserialize_discriminator(json) ==
    IF ~json.present THEN Ok(None)
    ELSE IF \E i \in DOMAIN json.array : json.array[i] \notin 0..255
    THEN Err("invalid value: expected u8")
    ELSE Ok(Some(json.array))

(* serde_json::from_str::<Idl>: an error of any field is the error of the  *)
(* document.                                                               *)
parse_idl(json) ==
    LET ix == deserialize_discriminator(json.instruction)
        ac == deserialize_discriminator(json.account)
        ev == deserialize_discriminator(json.event) IN
    IF ~ix.ok THEN Err(ix.err)
    ELSE IF ~ac.ok THEN Err(ac.err)
    ELSE IF ~ev.ok THEN Err(ev.err)
    ELSE Ok([BaseSchema EXCEPT
                !.instructions = <<[name |-> "Initialize", discriminator |-> ix.val,
                                    args |-> NoArgs]>>,
                !.accounts = Some(<<[name |-> "PoolState", discriminator |-> ac.val,
                                     ty |-> Some(StructBody(PoolFields))]>>),
                !.events = Some(<<[name |-> "TradeEvent", discriminator |-> ev.val,
                                   fields |-> Some(TradeFields)]>>)])

(* The JSON values of "discriminator": absent, arrays of 0..MaxDiscLen     *)
(* bytes, and an array of 8 integers of which one is no byte.              *)
JsonDiscriminators ==
    {JsonAbsent}
    \cup {JsonArray([i \in 1..n |-> i]) : n \in 0..MaxDiscLen}
    \cup {JsonArray(<<1, 2, 3, 4, 5, 6, 7, 256>>)}

JsonDocs ==
    [instruction : JsonDiscriminators, account : JsonDiscriminators,
     event : JsonDiscriminators]

(* State machine of parsing and generation: doc is the JSON document and,  *)
(* once parsed, whether the parse succeeded; idl is the parsed schema.     *)
ParseInit ==
    /\ \E j \in JsonDocs : doc = [given |-> TRUE, json |-> j, parsed |-> FALSE,
                                  ok |-> FALSE]
    /\ idl = BaseSchema
    /\ gen = NoGen
    /\ wire = NoWire
    /\ res = NoRes
    /\ ovr = NoOvr
    /\ vres = NoVres
    /\ app = NoApp
    /\ dsc = NoDsc
    /\ got = NoGot
    /\ pc = NoPc
    /\ disk = NoDisk
    /\ scan = NoScan
    /\ fmt = NoFmt

Parse ==
    /\ doc.given
    /\ ~doc.parsed
    /\ LET r == parse_idl(doc.json) IN
        /\ doc' = [doc EXCEPT !.parsed = TRUE, !.ok = r.ok]
        /\ idl' = IF r.ok THEN r.val ELSE idl
    /\ UNCHANGED <<gen, wire, res, ovr, vres, app, dsc, got, pc, disk, scan, fmt>>

(* main: generate runs on the schema the parse returned.                   *)
GenerateParsed ==
    /\ doc.given
    /\ doc.parsed
    /\ doc.ok
    /\ Generate

ParseNext ==
    \/ Parse
    \/ GenerateParsed

SpecParse == ParseInit /\ [][ParseNext]_vars

----------------------------------------------------------------------------
(* Properties of parsing.                                                  *)

(* C19: every discriminator of an instruction, account or event of a       *)
(* schema the parse accepted has exactly 8 bytes, in particular of a       *)
(* schema the generator is run on.                                         *)
C19_ParsedDiscriminatorsHaveEightBytes ==
    (doc.given /\ doc.parsed /\ doc.ok) =>
        \A t \in EntityTypes :
            \A i \in DOMAIN DeclsOf(idl, t) :
                IsSome(DeclsOf(idl, t)[i].discriminator)
                    => Len(DeclsOf(idl, t)[i].discriminator.v) = 8

----------------------------------------------------------------------------
(* Properties of the fixed-layout (bytemuck) account decoder.              *)

(* A decode by the bytemuck account decoder of an input that starts with   *)
(* the account's constant.                                                 *)
BytemuckTagged ==
    /\ res.routine = "bytemuck_account"
    /\ Len(res.input) >= 8
    /\ SubSeq(res.input, 1, 8) = gen.account_impls[res.target].DISCRIMINATOR

BytemuckWindow == SubSeq(res.input, 9, Len(res.input))

(* C20 as stated: the decoder succeeds on every input that starts with the *)
(* constant and whose remaining window is at least as long as the layout   *)
(* (here even with the window aligned for the layout).                     *)
C20_WindowAtLeastLayoutAccepted ==
    (/\ BytemuckTagged
     /\ res.aligned
     /\ Len(BytemuckWindow) >= size_of(gen.account_impls[res.target].fields))
        => res.out.ok

(* C20 amended: on an input that starts with the constant the decoder      *)
(* succeeds exactly when the remaining window has exactly the size of the  *)
(* layout and is aligned for it (always, for a packed layout), and then    *)
(* returns the value whose bytes the window holds; a shorter, longer or    *)
(* misaligned window gives the bytemuck conversion error.                  *)
C20_ExactWindowAccepted ==
    BytemuckTagged =>
        LET a == gen.account_impls[res.target] IN
        IF /\ Len(BytemuckWindow) = size_of(a.fields)
           /\ (res.aligned \/ a.packed)
        THEN /\ res.out.ok
             /\ Len(res.out.val) = Len(a.fields)
             /\ bytes_of(a.fields, res.out.val) = BytemuckWindow
        ELSE /\ ~IsPanic(res.out)
             /\ ~res.out.ok
             /\ res.out.err.kind = "InvalidData"
             /\ res.out.err.msg \in
                    {"Bytemuck conversion error: SizeMismatch",
                     "Bytemuck conversion error: TargetAlignmentGreaterAndInputNotAligned"}

C20_Witness ==
    /\ BytemuckTagged
    /\ res.aligned
    /\ ~gen.account_impls[res.target].packed
    /\ res.input = DiscA \o <<1, 2, 1, 0>>
    /\ res.out.ok
    /\ res.out.val = <<513, 1>>

----------------------------------------------------------------------------
(* main (src/src/main.rs): read the schema file, parse it, generate, then  *)
(* write the crate.  pc is the statement main is at; disk is the sequence  *)
(* of files and directories written so far.                                *)

(* The input file's text: no JSON at all, or an object of which each key   *)
(* is absent or an array; every declaration carries its "discriminator" as *)
(* JSON.                                                                   *)
deserialize_decl(e) ==
    IF "discriminator" \in DOMAIN e
    THEN LET d == deserialize_discriminator(e.discriminator) IN
         IF d.ok THEN Ok([e EXCEPT !.discriminator = d.val]) ELSE Err(d.err)
    ELSE Ok(e)

(* Vec<T>: the elements in order; the first element that fails is the      *)
(* error.                                                                  *)
deserialize_vec(array) ==
    LET bad == {i \in DOMAIN array : ~deserialize_decl(array[i]).ok} IN
    IF bad # {}
    THEN Err(deserialize_decl(array[CHOOSE i \in bad : \A j \in bad : i <= j]).err)
    ELSE Ok([i \in DOMAIN array |-> deserialize_decl(array[i]).val])

(* #[serde(default)] Option<Vec<T>>: None for an absent key.               *)
deserialize_option_vec(json) ==
    IF ~json.present THEN Ok(None)
    ELSE LET r == deserialize_vec(json.array) IN
         IF r.ok THEN Ok(Some(r.val)) ELSE r

(* serde_json::from_str::<Idl>: #[serde(default)] instructions is the      *)
(* empty list for an absent key.                                           *)
from_str(text) ==
    IF text.malformed THEN Err("expected value")
    ELSE LET instructions == deserialize_option_vec(text.instructions)
             accounts == deserialize_option_vec(text.accounts)
             types == deserialize_option_vec(text.types)
             errors == deserialize_option_vec(text.errors)
             events == deserialize_option_vec(text.events)
             failed == SelectSeq(<<instructions, accounts, types, errors, events>>,
                                 LAMBDA r : ~r.ok)
         IN IF failed # <<>> THEN Err(Head(failed).err)
            ELSE Ok([address |-> IF text.address.present
                                 THEN Some(text.address.string) ELSE None,
                     name |-> None, version |-> None, metadata |-> None,
                     instructions |-> OptSeq(instructions.val),
                     accounts |-> accounts.val, types |-> types.val,
                     errors |-> errors.val, events |-> events.val])

(* Variant: the crate directory is created before the code is generated.   *)
main_statements_dirs_first ==
    <<"read_to_string", "from_str", "create_dir_all", "generate", "write_lib",
      "write_types", "write_accounts", "write_instructions", "write_errors",
      "write_events", "write_cargo_toml", "write_readme", "write_gitignore",
      "create_examples_dir", "generate_examples", "rustfmt">>

(* The statements of main that can fail or write, in program order.        *)
main_statements ==
    <<"read_to_string", "from_str", "generate", "create_dir_all", "write_lib",
      "write_types", "write_accounts", "write_instructions", "write_errors",
      "write_events", "write_cargo_toml", "write_readme", "write_gitignore",
      "create_examples_dir", "generate_examples", "rustfmt">>

(* The statement after the one at label; "done" after the last, where main *)
(* prints the tree of the crate and returns Ok.                            *)
StatementAfter(label) ==
    LET i == CHOOSE k \in DOMAIN main_statements : main_statements[k] = label IN
    IF i = Len(main_statements) THEN "done" ELSE main_statements[i + 1]

Marker(text) == [empty |-> FALSE, marker |-> text]

(* What each write statement of main writes: the module's text, or the     *)
(* marker comment when the text is empty; instructions.rs gets the text    *)
(* as it is.                                                               *)
main_writes(label, code) ==
    CASE label = "create_dir_all" ->
            <<FileWrite("src", [kind |-> "directory"])>>
      [] label = "write_lib" -> <<FileWrite("src/lib.rs", code.lib)>>
      [] label = "write_types" ->
            <<FileWrite("src/types.rs",
                        IF ~code.types.empty THEN code.types
                        ELSE Marker("// No custom types defined"))>>
      [] label = "write_accounts" ->
            <<FileWrite("src/accounts.rs",
                        IF ~code.accounts.empty THEN code.accounts
                        ELSE Marker("// No accounts defined"))>>
      [] label = "write_instructions" ->
            <<FileWrite("src/instructions.rs", code.instructions)>>
      [] label = "write_errors" ->
            <<FileWrite("src/errors.rs",
                        IF ~code.errors.empty THEN code.errors
                        ELSE Marker("// No errors defined"))>>
      [] label = "write_events" ->
            <<FileWrite("src/events.rs",
                        IF ~code.events.empty THEN code.events
                        ELSE Marker("// No events defined"))>>
      [] label = "write_cargo_toml" -> <<FileWrite("Cargo.toml", [kind |-> "manifest"])>>
      [] label = "write_readme" -> <<FileWrite("README.md", [kind |-> "readme"])>>
      [] label = "write_gitignore" -> <<FileWrite(".gitignore", [kind |-> "gitignore"])>>
      [] label = "create_examples_dir" ->
            <<FileWrite("examples", [kind |-> "directory"])>>
      [] label = "generate_examples" ->
            <<FileWrite("examples/build_instruction.rs", [kind |-> "example"]),
              FileWrite("examples/parse_account.rs", [kind |-> "example"]),
              FileWrite("examples/parse_events.rs", [kind |-> "example"])>>

WriteStatements ==
    {"create_dir_all", "write_lib", "write_types", "write_accounts",
     "write_instructions", "write_errors", "write_events", "write_cargo_toml",
     "write_readme", "write_gitignore", "create_examples_dir", "generate_examples"}

(* rustfmt_files of main: lib.rs and instructions.rs, then the file of     *)
(* each other module whose text is not empty (a file that holds a marker   *)
(* is not named).                                                          *)
rustfmt_files(code) ==
    <<"src/lib.rs", "src/instructions.rs">>
    \o (IF ~code.types.empty THEN <<"src/types.rs">> ELSE <<>>)
    \o (IF ~code.accounts.empty THEN <<"src/accounts.rs">> ELSE <<>>)
    \o (IF ~code.errors.empty THEN <<"src/errors.rs">> ELSE <<>>)
    \o (IF ~code.events.empty THEN <<"src/events.rs">> ELSE <<>>)

(* What rustfmt makes of a file: the same items in rustfmt's layout.       *)
rustfmt(content) == [layout |-> "rustfmt"] @@ content

(* The content a path has on disk: that of the last write to it.           *)
LastWrite(d, path) ==
    d[CHOOSE i \in DOMAIN d : d[i].path = path /\ \A j \in DOMAIN d : d[j].path = path => j <= i]

(* The input files main is run on.                                         *)
JsonString(x) == [present |-> TRUE, string |-> x]

MainIxArrays ==
    {JsonAbsent, JsonArray(<<>>),
     JsonArray(<<[name |-> "Initialize", discriminator |-> JsonAbsent,
                  args |-> NoArgs]>>),
     JsonArray(<<[name |-> "Initialize",
                  discriminator |-> JsonArray(<<1, 2, 3, 4, 5, 6, 7, 256>>),
                  args |-> NoArgs]>>)}

JsonAccount(n, body) ==
    [name |-> n, discriminator |-> JsonArray(DiscA), ty |-> body]

MainAccountArrays ==
    {JsonAbsent, JsonArray(<<>>),
     JsonArray(<<JsonAccount("PoolState", Some(StructBody(PoolFields)))>>),
     JsonArray(<<JsonAccount("PoolState", None)>>),
     JsonArray(<<JsonAccount("PoolState", Some(StructBody(PoolFields))),
                 JsonAccount("Vault", None)>>)}

JsonType(n, fields) ==
    [name |-> n, ty |-> StructBody(fields), serialization |-> None, repr |-> None]

MainTypeArrays ==
    {JsonAbsent, JsonArray(<<>>),
     JsonArray(<<JsonType("PoolState", PoolFields)>>),
     JsonArray(<<JsonType("PoolState", PoolFields),
                 JsonType("CreateEvent", TradeFields)>>)}

MainErrorArrays ==
    {JsonAbsent, JsonArray(<<>>),
     JsonArray(<<[name |-> "Unauthorized", code |-> 6000]>>)}

JsonEvent(n, d, fields) == [name |-> n, discriminator |-> d, fields |-> fields]

MainEventArrays ==
    {JsonAbsent, JsonArray(<<>>),
     JsonArray(<<JsonEvent("TradeEvent", JsonArray(DiscA), Some(TradeFields))>>),
     JsonArray(<<JsonEvent("TradeEvent", JsonAbsent, Some(TradeFields))>>),
     JsonArray(<<JsonEvent("TradeEvent", JsonArray(DiscA), Some(TradeFields)),
                 JsonEvent("CreateEvent", JsonArray(DiscB), None)>>),
     JsonArray(<<JsonEvent("CreateEvent", JsonArray(DiscB), Some(<<>>))>>)}

MainTexts ==
    {[malformed |-> TRUE]}
    \cup [malformed : {FALSE},
          address : {JsonAbsent, JsonString(AddrValid)},
          instructions : MainIxArrays, accounts : MainAccountArrays,
          types : MainTypeArrays, errors : MainErrorArrays,
          events : MainEventArrays]

MainInit ==
    /\ \E readable \in BOOLEAN, text \in MainTexts :
          doc = [given |-> TRUE, readable |-> readable, text |-> text]
    /\ pc = Head(main_statements)
    /\ disk = NoDisk
    /\ idl = BaseSchema
    /\ gen = NoGen
    /\ wire = NoWire
    /\ res = NoRes
    /\ ovr = NoOvr
    /\ vres = NoVres
    /\ app = NoApp
    /\ dsc = NoDsc
    /\ got = NoGot
    /\ scan = NoScan
    /\ fmt = NoFmt

(* fs::read_to_string(&cli.input)?                                         *)
MainReadToString ==
    /\ pc = "read_to_string"
    /\ pc' = IF doc.readable THEN StatementAfter(pc) ELSE "failed"
    /\ UNCHANGED <<idl, gen, wire, res, ovr, vres, app, dsc, got, doc, disk, scan, fmt>>

(* serde_json::from_str(&idl_content)?                                     *)
MainFromStr ==
    /\ pc = "from_str"
    /\ LET r == from_str(doc.text) IN
        /\ idl' = IF r.ok THEN r.val ELSE idl
        /\ pc' = IF r.ok THEN StatementAfter(pc) ELSE "failed"
    /\ UNCHANGED <<gen, wire, res, ovr, vres, app, dsc, got, doc, disk, scan, fmt>>

(* codegen::generate(&idl, &cli.module)?                                   *)
MainGenerate ==
    /\ pc = "generate"
    /\ gen' = generate(idl)
    /\ \E ws \in debug_writes(generate(idl)) : disk' = disk \o ws
    /\ pc' = IF generate(idl).ok THEN StatementAfter(pc) ELSE "failed"
    /\ UNCHANGED <<idl, wire, res, ovr, vres, app, dsc, got, doc, scan, fmt>>

(* fs::create_dir_all(..)? and fs::write(..)?: the statement writes, or    *)
(* the file system fails one of its writes, after the writes before it,    *)
(* and main returns the error.                                             *)
MainWrite ==
    /\ pc \in WriteStatements
    /\ LET ws == main_writes(pc, IF gen.ok THEN gen.code ELSE [lib |-> NoGen]) IN
        \/ /\ disk' = disk \o ws
           /\ pc' = StatementAfter(pc)
        \/ /\ \E k \in 0..(Len(ws) - 1) : \E left \in failed_write(ws[k + 1]) :
                  disk' = disk \o SubSeq(ws, 1, k) \o left
           /\ pc' = "failed"
    /\ UNCHANGED <<idl, gen, wire, res, ovr, vres, app, dsc, got, doc, scan, fmt>>

(* What the rustfmt process can write to a file it was given, in order:    *)
(* nothing (it could not be started, stopped before the file, or the       *)
(* layout was already its own); the same items in its layout; or, when     *)
(* the file system fails its write, the file truncated with none or a part *)
(* of its text.  A later pass over the arguments then reads the truncated  *)
(* file and writes what it makes of it (a blank file of nothing, the items *)
(* of the part that is left in its layout), or fails to write again.       *)
rustfmt_writes(content) ==
    <<<<>>, <<rustfmt(content)>>, <<Truncated>>, <<Truncated, rustfmt(Truncated)>>,
      <<Truncated, Truncated>>>>

(* Command::new("rustfmt").arg("--edition").arg("2021").args(files)        *)
(* .output(): main waits for the process and only warns when it could not  *)
(* be started or exits with a failure.  fmt records, for every file the    *)
(* process was given, what it wrote to it; the order of its writes to      *)
(* different files is its own (it follows the modules lib.rs declares and  *)
(* then the argument list) and is not recorded.                            *)
MainRustfmt ==
    /\ pc = "rustfmt"
    /\ \E outcome \in [Range(rustfmt_files(gen.code))
                          -> DOMAIN rustfmt_writes(Truncated)] :
          fmt' = [f \in Range(rustfmt_files(gen.code)) |->
                     rustfmt_writes(LastWrite(disk, f).content)[outcome[f]]]
    /\ pc' = StatementAfter(pc)
    /\ UNCHANGED <<idl, gen, wire, res, ovr, vres, app, dsc, got, doc, disk, scan>>

MainNext ==
    \/ MainReadToString
    \/ MainFromStr
    \/ MainGenerate
    \/ MainWrite
    \/ MainRustfmt

SpecMain == MainInit /\ [][MainNext]_vars

----------------------------------------------------------------------------
(* Properties of main.                                                     *)

Groups == {"types", "accounts", "instructions", "errors", "events"}

(* The declarations the schema has for an output group.                    *)
GroupDecls(schema, g) ==
    CASE g = "types" -> OptSeq(schema.types)
      [] g = "accounts" -> OptSeq(schema.accounts)
      [] g = "instructions" -> schema.instructions
      [] g = "errors" -> OptSeq(schema.errors)
      [] g = "events" -> OptSeq(schema.events)

GroupPath(g) ==
    CASE g = "types" -> "src/types.rs"
      [] g = "accounts" -> "src/accounts.rs"
      [] g = "instructions" -> "src/instructions.rs"
      [] g = "errors" -> "src/errors.rs"
      [] g = "events" -> "src/events.rs"

WritesTo(d, path) == {i \in DOMAIN d : d[i].path = path}

IsMarker(content) == "marker" \in DOMAIN content

(* C21: once generate has run on a schema that has no declaration for an   *)
(* output group, generation has succeeded, whatever main writes to the     *)
(* group's file is the marker of an empty group (a file that a failing     *)
(* file system left without its text aside), and a run that completes has  *)
(* written it.                                                             *)
C21_EmptyGroupYieldsMarker ==
    \A g \in Groups :
        (gen.ran /\ GroupDecls(idl, g) = <<>>) =>
            /\ gen.ok
            /\ \A i \in WritesTo(disk, GroupPath(g)) :
                    disk[i].content # Truncated => IsMarker(disk[i].content)
            /\ pc = "done" => WritesTo(disk, GroupPath(g)) # {}

(* The files and directories of the output crate.                          *)
OutputPaths ==
    {"src", "src/lib.rs", "src/types.rs", "src/accounts.rs", "src/instructions.rs",
     "src/errors.rs", "src/events.rs", "Cargo.toml", "README.md", ".gitignore",
     "examples", "examples/build_instruction.rs", "examples/parse_account.rs",
     "examples/parse_events.rs"}

OutputWrites(d) == {i \in DOMAIN d : d[i].path \in OutputPaths}

(* The file was read and idl is the schema parsed from it.                 *)
SchemaParsed ==
    /\ doc.readable
    /\ from_str(doc.text).ok
    /\ idl = from_str(doc.text).val

(* The run stopped because the read, the parse or generate failed.         *)
StoppedBeforeOutput ==
    /\ pc = "failed"
    /\ (~doc.readable \/ ~from_str(doc.text).ok \/ (gen.ran /\ ~gen.ok))

(* C22 as stated: every write the run makes happens after the schema was   *)
(* parsed and generate returned Ok, and a run that stopped because the     *)
(* parse failed or generate returned an error has written nothing.         *)
C22_NoWriteBeforeGenerateOk ==
    /\ (disk # NoDisk \/ fmt # NoFmt) => (SchemaParsed /\ gen.ran /\ gen.ok)
    /\ StoppedBeforeOutput => (disk = NoDisk /\ fmt = NoFmt)

(* C22, amended: a file or directory of the output crate is written, by    *)
(* main or by the rustfmt process it starts, only when the file was read,  *)
(* the schema parsed and generate returned Ok; a run that stopped because  *)
(* the parse failed or generate returned an error has written nothing of   *)
(* the output crate; and the only write outside the output crate is the    *)
(* copy of the text that did not parse, which a failing generate leaves,   *)
(* whole or cut short, at /tmp/failed_codegen.rs.                          *)
C22_NoOutputBeforeGenerateOk ==
    /\ (OutputWrites(disk) # {} \/ fmt # NoFmt) =>
            (SchemaParsed /\ gen.ran /\ gen.ok)
    /\ DOMAIN fmt \subseteq OutputPaths
    /\ StoppedBeforeOutput => (OutputWrites(disk) = {} /\ fmt = NoFmt)
    /\ \A i \in DOMAIN disk \ OutputWrites(disk) :
            /\ SchemaParsed
            /\ gen.ran
            /\ ~gen.ok
            /\ pc = "failed"
            /\ disk[i].path = "/tmp/failed_codegen.rs"
            /\ disk[i].content \in {[kind |-> "unparsed", module |-> "instructions"],
                                    Truncated}
            /\ Len(disk) = 1

(* A run that stopped in generate, with the copy under /tmp and nothing    *)
(* of the output crate written.                                            *)
C22_Witness ==
    /\ pc = "failed"
    /\ SchemaParsed
    /\ IsSome(idl.accounts)
    /\ gen.ran
    /\ ~gen.ok
    /\ disk # NoDisk
    /\ OutputWrites(disk) = {}
    /\ fmt = NoFmt

(* C29: for every account name that gets validation helpers                *)
(* (validate_account_info, try_from_account_info) the accounts module of   *)
(* the same run holds the definition of that type and its impl block with  *)
(* DISCRIMINATOR and try_from_slice_with_discriminator.                    *)
C29_HelpersReferToEmittedAccounts ==
    (gen.ran /\ gen.ok /\ ~gen.code.accounts.empty) =>
        \A h \in Range(gen.code.accounts.items.helpers) :
            /\ \E t \in Range(gen.code.accounts.items.types) : t.name = h.name
            /\ \E m \in Range(gen.code.accounts.items.impls) : m.name = h.name

(* C30: every arm of parse_event, and so every variant of ParsedEvent,     *)
(* names a wrapper and a discriminator constant that generate_event        *)
(* emitted for the same event.                                             *)
C30_ParseArmsReferToEmittedWrappers ==
    (gen.ran /\ gen.ok) =>
        \A a \in Range(gen.parse_arms) :
            \E e \in Range(gen.events) :
                /\ e.emitted
                /\ e.wrapper
                /\ e.name = a.wrapper
                /\ e.discm = a.discm

----------------------------------------------------------------------------
(* State machine of the emitted parse_events_from_data: scan holds the     *)
(* input and the loop's variables (offset, events) after each iteration.   *)

MaxChunks == 2

(* An event with fields of fixed size and one with a byte vector.  The     *)
(* bytes of the inputs stay below 128, so a length prefix read at any      *)
(* offset fits the integers of the checker.                                *)
DiscS == <<8, 7, 6, 5, 4, 3, 2, 1>>

MemoFields == <<[name |-> "memo", ty |-> "bytes"]>>

ScanEventLists ==
    {<<[name |-> "TradeEvent", discriminator |-> Some(DiscA),
        fields |-> Some(TradeFields)]>>,
     <<[name |-> "TradeEvent", discriminator |-> Some(DiscA),
        fields |-> Some(TradeFields)],
       [name |-> "CreateEvent", discriminator |-> Some(DiscS),
        fields |-> Some(MemoFields)]>>,
     <<[name |-> "CreateEvent", discriminator |-> Some(DiscA),
        fields |-> Some(MemoFields)],
       [name |-> "TradeEvent", discriminator |-> None,
        fields |-> Some(TradeFields)]>>}

ScanSchemas == {[BaseSchema EXCEPT !.events = Some(l)] : l \in ScanEventLists}

(* The pieces the inputs are made of: encoded events of 10, 12 and 13      *)
(* bytes, a tagged payload that does not decode, a tagged payload cut      *)
(* short, an unknown tag, and a fragment of fewer than 8 bytes.            *)
ScanChunks ==
    {DiscA \o <<1, 1>>,
     DiscS \o to_le_bytes(0, 4),
     DiscS \o to_le_bytes(1, 4) \o <<7>>,
     DiscA \o <<1, 5>>,
     DiscS \o <<9>>,
     Zero8,
     <<1, 2, 3>>}

RECURSIVE ScanInputsOf(_)
ScanInputsOf(n) ==
    IF n = 0 THEN {<<>>}
    ELSE ScanInputsOf(n - 1)
         \cup {d \o c : d \in ScanInputsOf(n - 1), c \in ScanChunks}

ScanInit ==
    /\ idl \in ScanSchemas
    /\ gen = NoGen
    /\ scan = NoScan
    /\ fmt = NoFmt
    /\ wire = NoWire
    /\ res = NoRes
    /\ ovr = NoOvr
    /\ vres = NoVres
    /\ app = NoApp
    /\ dsc = NoDsc
    /\ got = NoGot
    /\ doc = NoDoc
    /\ pc = NoPc
    /\ disk = NoDisk

(* parse_events_from_data(data) is called: events is empty, offset 0.      *)
ScanStart ==
    /\ gen.ok
    /\ gen.parse_arms # <<>>
    /\ ~scan.started
    /\ \E data \in ScanInputsOf(MaxChunks) :
          scan' = [started |-> TRUE, data |-> data, offset |-> 0, events |-> <<>>,
                   done |-> FALSE]
    /\ UNCHANGED <<idl, gen, wire, res, ovr, vres, app, dsc, got, doc, pc, disk, fmt>>

(* The loop's variables after an iteration.                                *)
ScanAfter(r) ==
    [scan EXCEPT !.offset = r.offset, !.events = r.events, !.done = r.done]

(* One iteration of the loop.                                              *)
ScanStep ==
    /\ scan.started
    /\ ~scan.done
    /\ scan' = ScanAfter(parse_events_iteration(gen, scan.data, scan.offset,
                                                scan.events))
    /\ UNCHANGED <<idl, gen, wire, res, ovr, vres, app, dsc, got, doc, pc, disk, fmt>>

ScanNext ==
    \/ Generate
    \/ ScanStart
    \/ ScanStep

(* The loop is sequential code: an iteration that can run does run.        *)
SpecEvents == ScanInit /\ [][ScanNext]_vars /\ WF_vars(ScanStep)

ScanDone == scan.started /\ scan.done

ScanErrors == {k \in DOMAIN scan.events : ~scan.events[k].ok}

(* The bytes the decoded events of a result list stand for, in list order. *)
RECURSIVE EncodedEvents(_, _)
EncodedEvents(g, events) ==
    IF events = <<>> THEN <<>>
    ELSE IF ~Head(events).ok THEN EncodedEvents(g, Tail(events))
    ELSE LET arm == CHOOSE a \in Range(g.parse_arms) :
                        a.variant = Head(events).val.variant IN
         EventWrapper_serialize(WrapperOf(g, arm), Head(events).val.event)
             \o EncodedEvents(g, Tail(events))

(* C27: the emitted parse_events_from_data terminates on every input: the  *)
(* offset never exceeds the length of the input, every iteration of the    *)
(* loop either ends the loop or advances the offset by at least 8, and a   *)
(* call that was started does return.                                      *)
C27_ScanTerminates ==
    /\ [](scan.started => scan.offset <= Len(scan.data))
    /\ [][(scan.started /\ scan' # scan)
            => (scan'.done \/ scan'.offset >= scan.offset + 8)]_vars
    /\ (scan.started ~> ScanDone)

(* A call that decoded two events of different sizes, consumed the whole   *)
(* input and returned.                                                     *)
C27_Witness ==
    /\ ScanDone
    /\ Len(scan.events) = 2
    /\ ScanErrors = {}
    /\ scan.offset = Len(scan.data)
    /\ scan.offset = 25

(* C28: the list parse_events_from_data builds holds at most one error,    *)
(* which is then its last element and ended the loop; the elements before  *)
(* it are the events decoded from the input in input order (encoded again  *)
(* they are the consumed prefix of the input); the error is the one the    *)
(* bytes at the offset give; and a call that returns without an error      *)
(* leaves fewer than 8 bytes unread, for which the list holds nothing.     *)
C28_OneErrorLastTailDropped ==
    scan.started =>
        /\ \A k \in ScanErrors : k = Len(scan.events) /\ scan.done
        /\ EncodedEvents(gen, scan.events) = SubSeq(scan.data, 1, scan.offset)
        /\ (ScanErrors # {} =>
               /\ Len(scan.data) - scan.offset >= 8
               /\ scan.events[Len(scan.events)]
                      = parse_event(gen, SliceFrom(scan.data, scan.offset)))
        /\ (scan.done /\ ScanErrors = {} => Len(scan.data) - scan.offset < 8)

(* A call that returned an event and then an error, and a call that        *)
(* returned one event and dropped a fragment of three bytes.               *)
C28_Witness ==
    /\ ScanDone
    /\ \/ /\ Len(scan.events) = 2
          /\ ScanErrors = {2}
          /\ scan.events[2].err.kind = "DeserializationError"
       \/ /\ Len(scan.events) = 1
          /\ ScanErrors = {}
          /\ Len(scan.data) - scan.offset = 3

====
